---- MODULE Spec2Model ----
(***************************************************************************)
(* A model of the bopmatic CLI's self-upgrade (upgradeCLIViaGithub) and of *)
(* its build-image pull (pullBopmaticImage), both in src/auth.go.          *)
(*                                                                         *)
(* Every library call the code makes is one step.  A call that can return  *)
(* an error takes either outcome; what the step does next is what the code *)
(* does with that error.                                                   *)
(***************************************************************************)
EXTENDS Integers, Sequences, FiniteSets, TLC

VARIABLES
    \* ---- upgradeCLIViaGithub ----
    pc,             \* the call upgradeCLIViaGithub is about to make
    fs,             \* the filesystem: path -> file
    server,         \* what the release server answers to the GET
    exePath,        \* what os.Executable() reports for this process
    binaryContent,  \* the local binaryContent
    tmpFile,        \* the local tmpFile: "nil", "open" or "closed"
    myBinaryPath,   \* the local myBinaryPath ("" until assigned)
    stderr,         \* what the upgrade wrote to os.Stderr, in order
    stdout,         \* what the upgrade wrote to os.Stdout, in order
    calls,          \* the os.Rename / os.Remove calls made, with their results
    \* ---- pullBopmaticImage ----
    ppc,            \* the position of pullBopmaticImage
    dockerStatus,   \* the local dockerStatus, declared before the loop
    nread,          \* lines the scanner has returned so far
    lastLine,       \* the line the last Scan() returned
    scanErr,        \* progressScanner.Err(): "nil" or the error Scan() stopped on
    pullFailure,    \* how the underlying pull has failed, "none" if it has not
    lastEvent,      \* the progress line last written to os.Stdout
    pout,           \* what the pull wrote to os.Stdout, in order
    perr            \* what the pull wrote to os.Stderr, in order

upgradeVars == <<pc, fs, server, exePath, binaryContent, tmpFile, myBinaryPath,
                 stderr, stdout, calls>>
pullVars == <<ppc, dockerStatus, nread, lastLine, scanErr, pullFailure, lastEvent,
              pout, perr>>

VARIABLES
    \* ---- upgradeBuildContainer ----
    bpc,            \* the position of upgradeBuildContainer
    haveBuildImg,   \* the local haveBuildImg: "unset", "true" or "false"
    registry,       \* whether the registry could be asked: "unasked", "up", "down"
    needUpgrade,    \* what DoesLocalImageNeedUpdate gave: "unset", "err", "true", "false"
    bout,           \* what upgradeBuildContainer wrote to os.Stdout, in order
    berr,           \* what upgradeBuildContainer wrote to os.Stderr, in order
    firstLetter     \* strings.ToUpper(shouldDownload)[0], "" before the prompt

buildVars == <<bpc, haveBuildImg, registry, needUpgrade, bout, berr, firstLetter>>

VARIABLES
    \* ---- RunContainerCommand and its callers ----
    xpc,            \* the position of the command runner
    caller,         \* the function that runs the command
    engineUp,       \* whether the container engine can be reached
    container,      \* the engine's container: "none", "created", "running",
                    \* "exited", "removed"
    ncreated,       \* containers created for this request
    autoRemove,     \* whether the container was created with automatic removal
    cexit,          \* the exit code the command ends with
    xstate,         \* the execution's state: "none", "Created", "Running",
                    \* "Exited", "Errored"
    stream,         \* the frames of the combined output not yet consumed
    consumed,       \* the frames consumed so far, in order
    demuxOn,        \* whether the background consumer has been started
    outSink,        \* the bytes forwarded to the stdout sink
    errSink,        \* the bytes forwarded to the stderr sink
    waitSignal,     \* the completion signal that fired: "none", "error", "exit"
    result,         \* the ExecutionResult returned
    callerResult    \* what the caller did with the result

execVars == <<xpc, caller, engineUp, container, ncreated, autoRemove, cexit, xstate,
              stream, consumed, demuxOn, outSink, errSink, waitSignal, result,
              callerResult>>

VARIABLES
    \* ---- upgradeCLI ----
    cpc,            \* the position of upgradeCLI
    versionText,    \* the embedded version text of the running binary
    latestVer,      \* the local latestVer (<<>> until assigned)
    shouldUpgrade,  \* shouldUpgrade[0] after ToUpper, "" before the prompt
    hostCalls,      \* the util.RunHostCommand calls made, with their results
    cout,           \* what upgradeCLI wrote to os.Stdout, in order
    cerr            \* what upgradeCLI wrote to os.Stderr, in order

cliVars == <<cpc, versionText, latestVer, shouldUpgrade, hostCalls, cout, cerr>>

VARIABLES
    \* ---- configMain ----
    kpc,            \* the position of configMain
    fidx,           \* the loop's position in {certPath, keyPath, apiKeyPath}
    credFiles,      \* the credential files: what each path holds
    hadFile,        \* whether each path held a file when configMain began
    haveExisting,   \* the local haveExisting
    shouldReplace,  \* per file: the answer to its replace prompt, "" if not shown
    gotApiKey,      \* whether getNewApiKey() has returned a key
    kerr            \* what configMain wrote to os.Stderr, in order

cfgVars == <<kpc, fidx, credFiles, hadFile, haveExisting, shouldReplace, gotApiKey,
             kerr>>

VARIABLES
    \* ---- main, projMain, pkgMain, deployMain ----
    mpc,            \* the dispatch level at work, or "handler", "exited"
    osArgs,         \* os.Args[1:], the command line after the program name
    exitStatus,     \* the local exitStatus of the level at work
    subCommand,     \* the handler chosen, "" before any choice
    helpOut,        \* the help texts printed, in order
    exitedWith        \* the status the process exited with, <<>> while it runs

dispVars == <<mpc, osArgs, exitStatus, subCommand, helpOut, exitedWith>>

VARIABLES
    \* ---- logsMain ----
    lpc,            \* the position of logsMain
    optStart,       \* the --starttime option
    optEnd,         \* the --endtime option
    clock,          \* what time.Now() returns, in hours
    startTime,      \* the local startTime (<<>> until assigned)
    endTime,        \* the local endTime (<<>> until assigned)
    getLogsCalls,   \* the bopsdk.GetLogs calls made: <<start, end>> each
    lerr            \* what logsMain wrote to os.Stderr, in order

logsVars == <<lpc, optStart, optEnd, clock, startTime, endTime, getLogsCalls, lerr>>

VARIABLES
    \* ---- projDescribeMain ----
    qpc,            \* the position of projDescribeMain's main flow
    activeDeploys,  \* len(projDesc.ActiveDeployIds)
    goroutine,      \* per request: "none", "started", "called", "ok", "err"
    reply,          \* the four result variables: "nil" or the reply written
    writers,        \* per result variable: the requests that wrote it
    qout,           \* what projDescribeMain wrote to os.Stdout, in order
    qerr            \* what projDescribeMain wrote to os.Stderr, in order

descVars == <<qpc, activeDeploys, goroutine, reply, writers, qout, qerr>>

\* the variables of the commands other than the upgrade, the pull and the
\* container run
commandVars == <<cliVars, cfgVars, dispVars, logsVars, descVars>>
coreVars == <<upgradeVars, pullVars, buildVars, execVars>>
besidesCli == <<cfgVars, dispVars, logsVars, descVars>>
besidesCfg == <<cliVars, dispVars, logsVars, descVars>>
besidesDisp == <<cliVars, cfgVars, logsVars, descVars>>
besidesLogs == <<cliVars, cfgVars, dispVars, descVars>>
besidesDesc == <<cliVars, cfgVars, dispVars, logsVars>>

vars == <<upgradeVars, pullVars, buildVars, execVars, commandVars>>

(***************************************************************************)
(* Bounds                                                                  *)
(***************************************************************************)
\* bytes in a binary (the old one and the released one)
MaxBody == 2
\* lines the pull stream may carry
MaxLines == 3
\* width of the modelled unsigned integers: uint64 arithmetic is scaled down
\* to arithmetic modulo 2^UintBits, so that Current * 100 still wraps
UintBits == 8
\* byte counts a status line may carry: 0..MaxCount and the largest integer
MaxCount == 2
\* frames a command may write to its combined output
MaxFrames == 2
\* exit codes a command may end with: 0..MaxExit
MaxExit == 2

(***************************************************************************)
(* The filesystem                                                          *)
(***************************************************************************)
BinPath == "/opt/bin/bopmatic"
LinkPath == "/usr/bin/bopmatic"
TmpPath == "/tmp/bopmatic-1"
BakSuffix == ".bak"
Paths == {BinPath, BinPath \o BakSuffix, LinkPath, LinkPath \o BakSuffix, TmpPath}

NoFile == [content |-> <<>>, mode |-> "absent"]
OldBinary == [i \in 1..MaxBody |-> "old"]
NewBinary == [i \in 1..MaxBody |-> "new"]
NotFoundPage == <<"Not Found">>
Symlink(target) == [content |-> <<target>>, mode |-> "symlink"]

Exists(f, p) == f[p].mode # "absent"

\* os.Rename(from, to) when it succeeds: `to` is replaced, `from` is gone.
\* A rename that fails changes nothing.
Rename(f, from, to) == [f EXCEPT ![to] = f[from], ![from] = NoFile]

\* os.Remove(p) when it succeeds
Remove(f, p) == [f EXCEPT ![p] = NoFile]

\* filepath.EvalSymlinks(p) on filesystem f
EvalSymlinks(f, p) == IF f[p].mode = "symlink" THEN f[p].content[1] ELSE p

\* the proper prefixes a failed Write may leave in the file
Prefixes(s) == {SubSeq(s, 1, n) : n \in 0..(Len(s) - 1)}

(***************************************************************************)
(* upgradeCLIViaGithub (src/auth.go:307-380)                               *)
(***************************************************************************)
Servers == {[status |-> 200, body |-> NewBinary],
            [status |-> 404, body |-> NotFoundPage]}

File(content, mode) == [content |-> content, mode |-> mode]

InitFs(viaLink, staleBak) ==
    [p \in Paths |->
        IF p = BinPath THEN File(OldBinary, "0755")
        ELSE IF p = LinkPath /\ viaLink THEN Symlink(BinPath)
        ELSE IF p = BinPath \o BakSuffix /\ staleBak THEN File(<<"stale">>, "0755")
        ELSE NoFile]

\* the filesystem, the server and the locals before the first call
UpgradeStart ==
    /\ \E viaLink \in BOOLEAN, staleBak \in BOOLEAN :
          /\ fs = InitFs(viaLink, staleBak)
          /\ exePath = IF viaLink THEN LinkPath ELSE BinPath
    /\ server \in Servers
    /\ binaryContent = <<>>
    /\ tmpFile = "nil"
    /\ myBinaryPath = ""
    /\ stderr = <<>>
    /\ stdout = <<>>
    /\ calls = <<>>

UpgradeInit ==
    /\ pc = "Get"
    /\ UpgradeStart

\* fmt.Fprintf(os.Stderr, msg); os.Exit(1)
Fail(msg) ==
    /\ stderr' = Append(stderr, msg)
    /\ pc' = "exit1"

\* client.Get(...): an error is a transport failure; any status is a response
HttpGet ==
    /\ pc = "Get"
    /\ \/ /\ pc' = "CreateTemp"
          /\ UNCHANGED stderr
       \/ Fail("Failed to download")
    /\ UNCHANGED <<fs, server, exePath, binaryContent, tmpFile, myBinaryPath,
                   stdout, calls>>
    /\ UNCHANGED <<pullVars, buildVars, execVars, commandVars>>

\* os.CreateTemp("", "bopmatic-*"): a failure is printed and the code goes on
CreateTemp ==
    /\ pc = "CreateTemp"
    /\ pc' = "ReadAll"
    /\ \/ /\ fs' = [fs EXCEPT ![TmpPath] = File(<<>>, "0600")]
          /\ tmpFile' = "open"
          /\ UNCHANGED stderr
       \/ /\ stderr' = Append(stderr, "Failed to create temp file")
          /\ UNCHANGED <<fs, tmpFile>>
    /\ UNCHANGED <<server, exePath, binaryContent, myBinaryPath, stdout, calls>>
    /\ UNCHANGED <<pullVars, buildVars, execVars, commandVars>>

\* ioutil.ReadAll(resp.Body)
ReadAll ==
    /\ pc = "ReadAll"
    /\ \/ /\ binaryContent' = server.body
          /\ pc' = "Write"
          /\ UNCHANGED stderr
       \/ /\ Fail("Failed to download")
          /\ UNCHANGED binaryContent
    /\ UNCHANGED <<fs, server, exePath, tmpFile, myBinaryPath, stdout, calls>>
    /\ UNCHANGED <<pullVars, buildVars, execVars, commandVars>>

\* tmpFile.Write(binaryContent): on a nil *os.File it returns ErrInvalid; a
\* failed write may leave any proper prefix behind
WriteTmp ==
    /\ pc = "Write"
    /\ \/ /\ tmpFile = "open"
          /\ fs' = [fs EXCEPT ![TmpPath].content = binaryContent]
          /\ pc' = "Chmod"
          /\ UNCHANGED stderr
       \/ /\ tmpFile = "open"
          /\ \E part \in Prefixes(binaryContent) :
                fs' = [fs EXCEPT ![TmpPath].content = part]
          /\ Fail("Failed to download")
       \/ /\ tmpFile = "nil"
          /\ Fail("Failed to download")
          /\ UNCHANGED fs
    /\ UNCHANGED <<server, exePath, binaryContent, tmpFile, myBinaryPath,
                   stdout, calls>>
    /\ UNCHANGED <<pullVars, buildVars, execVars, commandVars>>

\* tmpFile.Chmod(0755)
ChmodTmp ==
    /\ pc = "Chmod"
    /\ \/ /\ fs' = [fs EXCEPT ![TmpPath].mode = "0755"]
          /\ pc' = "Close"
          /\ UNCHANGED stderr
       \/ /\ Fail("Failed to download")
          /\ UNCHANGED fs
    /\ UNCHANGED <<server, exePath, binaryContent, tmpFile, myBinaryPath,
                   stdout, calls>>
    /\ UNCHANGED <<pullVars, buildVars, execVars, commandVars>>

\* tmpFile.Close()
CloseTmpNoExit ==
    /\ pc = "Close"
    /\ tmpFile' = "closed"
    /\ pc' = "Executable"
    /\ \/ UNCHANGED stderr
       \/ stderr' = Append(stderr, "Failed to download")
    /\ UNCHANGED <<fs, server, exePath, binaryContent, myBinaryPath, stdout,
                   calls>>
    /\ UNCHANGED <<pullVars, buildVars, execVars, commandVars>>
CloseTmp ==
    /\ pc = "Close"
    /\ tmpFile' = "closed"
    /\ \/ /\ pc' = "Executable"
          /\ UNCHANGED stderr
       \/ Fail("Failed to download")
    /\ UNCHANGED <<fs, server, exePath, binaryContent, myBinaryPath, stdout,
                   calls>>
    /\ UNCHANGED <<pullVars, buildVars, execVars, commandVars>>

\* os.Executable()
Executable ==
    /\ pc = "Executable"
    /\ \/ /\ myBinaryPath' = exePath
          /\ pc' = "EvalSymlinks"
          /\ UNCHANGED stderr
       \/ /\ Fail("Could not determine path")
          /\ UNCHANGED myBinaryPath
    /\ UNCHANGED <<fs, server, exePath, binaryContent, tmpFile, stdout, calls>>
    /\ UNCHANGED <<pullVars, buildVars, execVars, commandVars>>

\* filepath.EvalSymlinks(myBinaryPath)
ResolveSymlinksSkipped ==
    /\ pc = "EvalSymlinks"
    /\ \/ /\ pc' = "RenameAway"
          /\ UNCHANGED stderr
       \/ Fail("Could not determine path")
    /\ UNCHANGED <<fs, server, exePath, binaryContent, tmpFile, stdout, calls,
                   myBinaryPath>>
    /\ UNCHANGED <<pullVars, buildVars, execVars, commandVars>>
ResolveSymlinks ==
    /\ pc = "EvalSymlinks"
    /\ \/ /\ myBinaryPath' = EvalSymlinks(fs, myBinaryPath)
          /\ pc' = "RenameAway"
          /\ UNCHANGED stderr
       \/ /\ Fail("Could not determine path")
          /\ UNCHANGED myBinaryPath
    /\ UNCHANGED <<fs, server, exePath, binaryContent, tmpFile, stdout, calls>>
    /\ UNCHANGED <<pullVars, buildVars, execVars, commandVars>>

myBinaryPathBak == myBinaryPath \o BakSuffix

Call(op, from, to, ok) == [op |-> op, from |-> from, to |-> to, ok |-> ok]

\* os.Rename(myBinaryPath, myBinaryPathBak)
RenameAwayNoExit ==
    /\ pc = "RenameAway"
    /\ \/ /\ fs' = Rename(fs, myBinaryPath, myBinaryPathBak)
          /\ calls' = Append(calls, Call("Rename", myBinaryPath, myBinaryPathBak, TRUE))
          /\ pc' = "RenameIn"
          /\ UNCHANGED stderr
       \/ /\ calls' = Append(calls, Call("Rename", myBinaryPath, myBinaryPathBak, FALSE))
          /\ stderr' = Append(stderr, "Could not replace existing")
          /\ pc' = "RenameIn"
          /\ UNCHANGED fs
    /\ UNCHANGED <<server, exePath, binaryContent, tmpFile, myBinaryPath, stdout>>
    /\ UNCHANGED <<pullVars, buildVars, execVars, commandVars>>
RenameAway ==
    /\ pc = "RenameAway"
    /\ \/ /\ fs' = Rename(fs, myBinaryPath, myBinaryPathBak)
          /\ calls' = Append(calls, Call("Rename", myBinaryPath, myBinaryPathBak, TRUE))
          /\ pc' = "RenameIn"
          /\ UNCHANGED stderr
       \/ /\ calls' = Append(calls, Call("Rename", myBinaryPath, myBinaryPathBak, FALSE))
          /\ Fail("Could not replace existing")
          /\ UNCHANGED fs
    /\ UNCHANGED <<server, exePath, binaryContent, tmpFile, myBinaryPath, stdout>>
    /\ UNCHANGED <<pullVars, buildVars, execVars, commandVars>>

\* os.Rename(tmpFile.Name(), myBinaryPath); a failure is printed and the
\* rollback is next
RenameIn ==
    /\ pc = "RenameIn"
    /\ \/ /\ fs' = Rename(fs, TmpPath, myBinaryPath)
          /\ calls' = Append(calls, Call("Rename", TmpPath, myBinaryPath, TRUE))
          /\ pc' = "Remove"
          /\ UNCHANGED stderr
       \/ /\ calls' = Append(calls, Call("Rename", TmpPath, myBinaryPath, FALSE))
          /\ stderr' = Append(stderr, "Could not replace existing")
          /\ pc' = "Rollback"
          /\ UNCHANGED fs
    /\ UNCHANGED <<server, exePath, binaryContent, tmpFile, myBinaryPath, stdout>>
    /\ UNCHANGED <<pullVars, buildVars, execVars, commandVars>>

\* _ = os.Rename(myBinaryPathBak, myBinaryPath); os.Exit(1)
RollbackMissing ==
    /\ pc = "Rollback"
    /\ pc' = "exit1"
    /\ UNCHANGED <<fs, server, exePath, binaryContent, tmpFile, myBinaryPath,
                   stderr, stdout, calls>>
    /\ UNCHANGED <<pullVars, buildVars, execVars, commandVars>>
Rollback ==
    /\ pc = "Rollback"
    /\ pc' = "exit1"
    /\ \/ /\ fs' = Rename(fs, myBinaryPathBak, myBinaryPath)
          /\ calls' = Append(calls, Call("Rename", myBinaryPathBak, myBinaryPath, TRUE))
       \/ /\ calls' = Append(calls, Call("Rename", myBinaryPathBak, myBinaryPath, FALSE))
          /\ UNCHANGED fs
    /\ UNCHANGED <<server, exePath, binaryContent, tmpFile, myBinaryPath, stderr,
                   stdout>>
    /\ UNCHANGED <<pullVars, buildVars, execVars, commandVars>>

\* _ = os.Remove(myBinaryPathBak); fmt.Printf("Upgrade ... complete")
RemoveBak ==
    /\ pc = "Remove"
    /\ pc' = "return"
    /\ stdout' = Append(stdout, "Upgrade complete")
    /\ \/ /\ fs' = Remove(fs, myBinaryPathBak)
          /\ calls' = Append(calls, Call("Remove", myBinaryPathBak, "", TRUE))
       \/ /\ calls' = Append(calls, Call("Remove", myBinaryPathBak, "", FALSE))
          /\ UNCHANGED fs
    /\ UNCHANGED <<server, exePath, binaryContent, tmpFile, myBinaryPath, stderr>>
    /\ UNCHANGED <<pullVars, buildVars, execVars, commandVars>>

UpgradeNext ==
    \/ HttpGet
    \/ CreateTemp
    \/ ReadAll
    \/ WriteTmp
    \/ ChmodTmp
    \/ CloseTmp
    \/ Executable
    \/ ResolveSymlinks
    \/ RenameAway
    \/ RenameIn
    \/ Rollback
    \/ RemoveBak

(***************************************************************************)
(* pullBopmaticImage (src/auth.go:382-439)                                 *)
(***************************************************************************)
Modulus == 2 ^ UintBits
MaxUint == Modulus - 1
CountVals == (0..MaxCount) \cup {MaxUint}

\* bufio.NewScanner(reader): the scanner's buffer holds at most this many
\* bytes, and a line that does not fit ends the scan with ErrTooLong
MaxScanTokenSize == 64 * 1024
ShortLen == 80
TooLong(line) == line.len >= MaxScanTokenSize

\* A string field of a status document is absent, of the wrong JSON type, or
\* a value; a number field is absent (<<>>) or a value (<<n>>).
Absent == "<absent>"
Bad == "<bad>"
Num(n) == <<n>>
NoNum == <<>>

\* The lines the stream may carry.  wellFormed: the line is a JSON document;
\* error: the document is the engine's error document {"error": ...,
\* "errorDetail": {...}}, which is how a pull that fails after the response
\* has started is reported.
StatusLines ==
    [len : {ShortLen}, wellFormed : {TRUE}, error : {FALSE},
     status : {Absent, Bad, "Downloading"},
     id : {Absent, "layer1"},
     current : {NoNum} \cup {Num(n) : n \in CountVals},
     total : {NoNum} \cup {Num(n) : n \in CountVals}]
Garbled(n) == [len |-> n, wellFormed |-> FALSE, error |-> FALSE, status |-> Absent,
               id |-> Absent, current |-> NoNum, total |-> NoNum]
ErrorDoc == [len |-> ShortLen, wellFormed |-> TRUE, error |-> TRUE, status |-> Absent,
             id |-> Absent, current |-> NoNum, total |-> NoNum]
LongStatusLine == [len |-> MaxScanTokenSize, wellFormed |-> TRUE, error |-> FALSE,
                   status |-> "Downloading", id |-> "layer1", current |-> Num(1),
                   total |-> Num(2)]
Lines == StatusLines \cup {Garbled(ShortLen), Garbled(MaxScanTokenSize - 1),
                           Garbled(MaxScanTokenSize), LongStatusLine}
NoLine == Garbled(0)

\* var dockerStatus DockerStatus
ZeroStatus == [status |-> "", id |-> "", current |-> 0, total |-> 0]

DecodedString(old, field) == IF field \in {Absent, Bad} THEN old ELSE field
DecodedUint(old, field) == IF field = NoNum THEN old ELSE field[1]

\* json.Unmarshal(line, &dockerStatus): a document that is not JSON is
\* rejected before anything is stored; otherwise every field present and of
\* the right type is stored, the others keep what they held, and a field of
\* the wrong type makes the call return an error after the rest is stored.
Unmarshal(ds, line) ==
    IF ~line.wellFormed
    THEN [ds |-> ds, err |-> TRUE]
    ELSE [ds |-> [status |-> DecodedString(ds.status, line.status),
                  id |-> DecodedString(ds.id, line.id),
                  current |-> DecodedUint(ds.current, line.current),
                  total |-> DecodedUint(ds.total, line.total)],
          err |-> Bad \in {line.status, line.id}]

\* progressPct = 100; if Total != 0 { progressPct = (Current * 100) / Total }
ProgressPct(ds) ==
    IF ds.total # 0
    THEN ((ds.current * 100) % Modulus) \div ds.total
    ELSE 100

Event(ds) == [status |-> ds.status, id |-> ds.id, progressPct |-> ProgressPct(ds)]
NoEvent == [status |-> "", id |-> "", progressPct |-> 0]

PullInit ==
    /\ ppc = "NewClient"
    /\ dockerStatus = ZeroStatus
    /\ nread = 0
    /\ lastLine = NoLine
    /\ scanErr = "nil"
    /\ pullFailure = "none"
    /\ lastEvent = NoEvent
    /\ pout = <<>>
    /\ perr = <<>>

PullFail(msg) ==
    /\ perr' = Append(perr, msg)
    /\ ppc' = "exit1"

\* dockerClient.NewClientWithOpts(...)
NewClient ==
    /\ ppc = "NewClient"
    /\ \/ /\ ppc' = "ImagePull"
          /\ UNCHANGED perr
       \/ PullFail("Docker install")
    /\ UNCHANGED <<dockerStatus, nread, lastLine, scanErr, pullFailure, lastEvent,
                   pout>>
    /\ UNCHANGED <<upgradeVars, buildVars, execVars, commandVars>>

\* cli.ImagePull(...): a pull the engine refuses returns an error here
ImagePull ==
    /\ ppc = "ImagePull"
    /\ \/ /\ ppc' = "Scan"
          /\ UNCHANGED <<perr, pullFailure>>
       \/ /\ pullFailure' = "request"
          /\ PullFail("Failed to pull image")
    /\ UNCHANGED <<dockerStatus, nread, lastLine, scanErr, lastEvent, pout>>
    /\ UNCHANGED <<upgradeVars, buildVars, execVars, commandVars>>

\* One turn of the loop: progressScanner.Scan() returns a line, which is
\* unmarshalled into dockerStatus and, unless that fails, printed.
ScanLine ==
    /\ ppc = "Scan"
    /\ nread < MaxLines
    /\ pullFailure = "none"
    /\ \E line \in Lines \cup {ErrorDoc} :
          /\ ~TooLong(line)
          /\ lastLine' = line
          /\ nread' = nread + 1
          /\ pullFailure' = IF line.error THEN "stream" ELSE "none"
          /\ LET r == Unmarshal(dockerStatus, line) IN
                /\ dockerStatus' = r.ds
                /\ IF r.err
                   THEN UNCHANGED <<lastEvent, pout>>
                   ELSE /\ lastEvent' = Event(r.ds)
                        /\ pout' = Append(pout, "progress")
    /\ UNCHANGED <<ppc, scanErr, perr>>
    /\ UNCHANGED <<upgradeVars, buildVars, execVars, commandVars>>

\* Scan() meets a line longer than the scanner's buffer
ScanTooLong ==
    /\ ppc = "Scan"
    /\ nread < MaxLines
    /\ pullFailure = "none"
    /\ \E line \in Lines :
          /\ TooLong(line)
          /\ lastLine' = line
    /\ nread' = nread + 1
    /\ scanErr' = "token too long"
    /\ ppc' = "Err"
    /\ UNCHANGED <<dockerStatus, pullFailure, lastEvent, pout, perr>>
    /\ UNCHANGED <<upgradeVars, buildVars, execVars, commandVars>>

\* Scan() meets the end of the stream
ScanEOF ==
    /\ ppc = "Scan"
    /\ ppc' = "Err"
    /\ UNCHANGED <<dockerStatus, nread, lastLine, scanErr, pullFailure, lastEvent,
                   pout, perr>>
    /\ UNCHANGED <<upgradeVars, buildVars, execVars, commandVars>>

\* Scan() meets a read error: the connection to the engine broke
ScanReadError ==
    /\ ppc = "Scan"
    /\ pullFailure = "none"
    /\ pullFailure' = "read"
    /\ scanErr' = "read error"
    /\ ppc' = "Err"
    /\ UNCHANGED <<dockerStatus, nread, lastLine, lastEvent, pout, perr>>
    /\ UNCHANGED <<upgradeVars, buildVars, execVars, commandVars>>

\* err = progressScanner.Err(); exit on an error, report success otherwise
CheckErr ==
    /\ ppc = "Err"
    /\ IF scanErr # "nil"
       THEN /\ PullFail("Failed to pull image")
            /\ UNCHANGED pout
       ELSE /\ pout' = Append(pout, "Successfully pulled")
            /\ ppc' = "return"
            /\ UNCHANGED perr
    /\ UNCHANGED <<dockerStatus, nread, lastLine, scanErr, pullFailure, lastEvent>>
    /\ UNCHANGED <<upgradeVars, buildVars, execVars, commandVars>>

PullNext ==
    \/ NewClient
    \/ ImagePull
    \/ ScanLine
    \/ ScanTooLong
    \/ ScanEOF
    \/ ScanReadError
    \/ CheckErr

(***************************************************************************)
(* upgradeBuildContainer (src/auth.go:254-289)                             *)
(***************************************************************************)
\* Image identities the local cache and the registry may hold
Digests == {"sha:old", "sha:new"}

\* util.HasBopmaticBuildImage(): lists the local images and looks for the
\* build image's repository:tag; the engine must be reachable
BuildImage == "bopmatic/build:latest"
LocalImageSets == {{}, {BuildImage}, {"other:latest"}, {BuildImage, "other:latest"}}
HasImage(images, ref) == IF ref \in images THEN "true" ELSE "false"

\* util.DoesLocalImageNeedUpdate(repo, tag): compares the local image's
\* identity with the one published upstream; fails when the registry cannot
\* be asked
NeedsUpdate(registryUp, localId, upstreamId) ==
    IF ~registryUp THEN "err"
    ELSE IF localId # upstreamId THEN "true"
    ELSE "false"

\* what the user may type at a prompt; <<>> is an empty line, which leaves
\* the default "Y" in place
Typed == {<<>>, <<"Y">>, <<"y">>, <<"y", "e", "s">>, <<"N">>, <<"n", "o">>}
ToUpper(c) == IF c = "y" THEN "Y" ELSE IF c = "n" THEN "N"
              ELSE IF c = "e" THEN "E" ELSE IF c = "s" THEN "S"
              ELSE IF c = "o" THEN "O" ELSE c
\* fmt.Scanf("%s", &answer) over a variable holding "Y"
Scanf(typed) == IF typed = <<>> THEN <<"Y">> ELSE typed
\* strings.ToUpper(answer)[0] == 'Y'
BeginsWithY(answer) == ToUpper(answer[1]) = "Y"

BuildInit ==
    /\ bpc = "HasImage"
    /\ haveBuildImg = "unset"
    /\ registry = "unasked"
    /\ needUpgrade = "unset"
    /\ bout = <<>>
    /\ berr = <<>>
    /\ firstLetter = ""

BuildIdle ==
    /\ bpc = "idle"
    /\ haveBuildImg = "unset"
    /\ registry = "unasked"
    /\ needUpgrade = "unset"
    /\ bout = <<>>
    /\ berr = <<>>
    /\ firstLetter = ""

BuildFail ==
    /\ berr' = Append(berr, "err")
    /\ bpc' = "exit1"

\* haveBuildImg, err := util.HasBopmaticBuildImage()
HasBuildImage ==
    /\ bpc = "HasImage"
    /\ \/ /\ BuildFail
          /\ UNCHANGED <<haveBuildImg, bout>>
       \/ \E images \in LocalImageSets :
             /\ haveBuildImg' = HasImage(images, BuildImage)
             /\ bpc' = IF haveBuildImg' = "true" THEN "NeedsUpdate" ELSE "Prompt"
             /\ bout' = IF haveBuildImg' = "true" THEN bout
                        ELSE bout \o <<"needs to download", "Download?">>
             /\ UNCHANGED berr
    /\ UNCHANGED <<registry, needUpgrade, firstLetter>>
    /\ UNCHANGED <<upgradeVars, pullVars, execVars, commandVars>>

\* needUpgrade, err := util.DoesLocalImageNeedUpdate(...), and what follows
\* from its answer
CheckNeedsUpdateSwallow ==
    /\ bpc = "NeedsUpdate"
    /\ \E registryUp \in BOOLEAN, localId \in Digests, upstreamId \in Digests :
          /\ registry' = IF registryUp THEN "up" ELSE "down"
          /\ needUpgrade' = NeedsUpdate(registryUp, localId, upstreamId)
    /\ IF needUpgrade' \in {"err", "false"}
       THEN /\ bout' = Append(bout, "up to date")
            /\ bpc' = "return"
       ELSE /\ bout' = Append(bout, "Update?")
            /\ bpc' = "Prompt"
    /\ UNCHANGED <<haveBuildImg, berr, firstLetter>>
    /\ UNCHANGED <<upgradeVars, pullVars, execVars, commandVars>>
CheckNeedsUpdate ==
    /\ bpc = "NeedsUpdate"
    /\ \E registryUp \in BOOLEAN, localId \in Digests, upstreamId \in Digests :
          /\ registry' = IF registryUp THEN "up" ELSE "down"
          /\ needUpgrade' = NeedsUpdate(registryUp, localId, upstreamId)
    /\ CASE needUpgrade' = "err" ->
               /\ BuildFail
               /\ UNCHANGED bout
         [] needUpgrade' = "false" ->
               /\ bout' = Append(bout, "up to date")
               /\ bpc' = "return"
               /\ UNCHANGED berr
         [] OTHER ->
               /\ bout' = Append(bout, "Update?")
               /\ bpc' = "Prompt"
               /\ UNCHANGED berr
    /\ UNCHANGED <<haveBuildImg, firstLetter>>
    /\ UNCHANGED <<upgradeVars, pullVars, execVars, commandVars>>

\* fmt.Scanf("%s", &shouldDownload) and the test of its first letter; a Y
\* calls pullBopmaticImage()
PromptAnyAnswer ==
    /\ bpc = "Prompt"
    /\ \E typed \in Typed :
          /\ firstLetter' = ToUpper(Scanf(typed)[1])
          /\ bpc' = "pull"
          /\ ppc' = "NewClient"
    /\ UNCHANGED <<haveBuildImg, registry, needUpgrade, bout, berr>>
    /\ UNCHANGED <<dockerStatus, nread, lastLine, scanErr, pullFailure, lastEvent,
                   pout, perr>>
    /\ UNCHANGED <<upgradeVars, execVars, commandVars>>
Prompt ==
    /\ bpc = "Prompt"
    /\ \E typed \in Typed :
          /\ firstLetter' = ToUpper(Scanf(typed)[1])
          /\ IF BeginsWithY(Scanf(typed))
             THEN /\ bpc' = "pull"
                  /\ ppc' = "NewClient"
             ELSE /\ bpc' = "return"
                  /\ UNCHANGED ppc
    /\ UNCHANGED <<haveBuildImg, registry, needUpgrade, bout, berr>>
    /\ UNCHANGED <<dockerStatus, nread, lastLine, scanErr, pullFailure, lastEvent,
                   pout, perr>>
    /\ UNCHANGED <<upgradeVars, execVars, commandVars>>

\* pullBopmaticImage() has returned: the hint for a first download
AfterPull ==
    /\ bpc = "pull"
    /\ ppc = "return"
    /\ bpc' = "return"
    /\ bout' = IF haveBuildImg = "false" THEN Append(bout, "next run bopmatic new")
               ELSE bout
    /\ UNCHANGED <<haveBuildImg, registry, needUpgrade, berr, firstLetter>>
    /\ UNCHANGED <<upgradeVars, pullVars, execVars, commandVars>>

BuildNext ==
    \/ HasBuildImage
    \/ CheckNeedsUpdate
    \/ Prompt
    \/ AfterPull

(***************************************************************************)
(* util.RunContainerCommand, as section 4.3 of the specification describes *)
(* it, and its callers readContainerDir (src/unnamed/part_001:219-237) and *)
(* createProjectFromTemplate (src/unnamed/part_001:357-393)                *)
(***************************************************************************)
Callers == {"readContainerDir", "createProjectFromTemplate"}
\* the command each caller runs
Command(c) == IF c = "readContainerDir" THEN <<"ls", "dir">>
              ELSE <<"cp", "-r", "srcPath", "./projectName">>

\* a frame of the multiplexed stream: its source tag and its payload
Payloads == {<<"a">>, <<"b", "\n">>}
Frames == [tag : {"stdout", "stderr"}, payload : Payloads]
Outputs == UNION {[1..n -> Frames] : n \in 0..MaxFrames}

NoError == [kind |-> "nil", command |-> <<>>, code |-> NoNum]
Error(kind) == [kind |-> kind, command |-> <<>>, code |-> NoNum]
CommandNonZeroExit(cmd, code) ==
    [kind |-> "CommandNonZeroExit", command |-> cmd, code |-> Num(code)]
InfrastructureKinds == {"GetwdFailed", "EngineUnavailable", "ContainerCreateFailed",
                        "ContainerStartFailed", "WaitInfrastructureError"}

NoResult == [exitCode |-> NoNum, error |-> Error("pending")]
Result(exitCode, error) == [exitCode |-> exitCode, error |-> error]

ExecInit ==
    /\ xpc = "Getwd"
    /\ caller \in Callers
    /\ engineUp \in BOOLEAN
    /\ container = "none"
    /\ ncreated = 0
    /\ autoRemove = FALSE
    /\ cexit \in 0..MaxExit
    /\ xstate = "none"
    /\ stream \in Outputs
    /\ consumed = <<>>
    /\ demuxOn = FALSE
    /\ outSink = <<>>
    /\ errSink = <<>>
    /\ waitSignal = "none"
    /\ result = NoResult
    /\ callerResult = [state |-> "running", entries |-> <<>>, err |-> NoError]

ExecIdle ==
    /\ xpc = "idle"
    /\ caller = "readContainerDir"
    /\ engineUp = TRUE
    /\ container = "none"
    /\ ncreated = 0
    /\ autoRemove = FALSE
    /\ cexit = 0
    /\ xstate = "none"
    /\ stream = <<>>
    /\ consumed = <<>>
    /\ demuxOn = FALSE
    /\ outSink = <<>>
    /\ errSink = <<>>
    /\ waitSignal = "none"
    /\ result = NoResult
    /\ callerResult = [state |-> "running", entries |-> <<>>, err |-> NoError]

engineState == <<container, ncreated, autoRemove, waitSignal>>
demuxState == <<stream, consumed, outSink, errSink>>
inputs == <<caller, engineUp, cexit>>

\* the runner returns an error before any result of the command exists
ReturnError(kind) ==
    /\ result' = Result(NoNum, Error(kind))
    /\ xpc' = "Return"

\* step 1: resolve the working directory, which must be absolute
Getwd ==
    /\ xpc = "Getwd"
    /\ \/ /\ xpc' = "Connect"
          /\ UNCHANGED result
       \/ ReturnError("GetwdFailed")
    /\ UNCHANGED <<inputs, engineState, demuxState, xstate, demuxOn, callerResult>>
    /\ UNCHANGED <<upgradeVars, pullVars, buildVars, commandVars>>

\* reach the engine; EngineUnavailable when it cannot be reached
ConnectUnchecked ==
    /\ xpc = "Connect"
    /\ xpc' = "Create"
    /\ UNCHANGED <<inputs, engineState, demuxState, xstate, demuxOn, callerResult,
                   result>>
    /\ UNCHANGED <<upgradeVars, pullVars, buildVars, commandVars>>
Connect ==
    /\ xpc = "Connect"
    /\ IF engineUp
       THEN /\ xpc' = "Create"
            /\ UNCHANGED result
       ELSE ReturnError("EngineUnavailable")
    /\ UNCHANGED <<inputs, engineState, demuxState, xstate, demuxOn, callerResult>>
    /\ UNCHANGED <<upgradeVars, pullVars, buildVars, commandVars>>

\* step 2: create the container, to be removed by the engine once it exits
CreateContainerKept ==
    /\ xpc = "Create"
    /\ \/ /\ container' = "created"
          /\ ncreated' = ncreated + 1
          /\ autoRemove' = FALSE
          /\ xstate' = "Created"
          /\ xpc' = "Start"
          /\ UNCHANGED result
       \/ /\ ReturnError("ContainerCreateFailed")
          /\ UNCHANGED <<container, ncreated, autoRemove, xstate>>
    /\ UNCHANGED <<inputs, waitSignal, demuxState, demuxOn, callerResult>>
    /\ UNCHANGED <<upgradeVars, pullVars, buildVars, commandVars>>
CreateContainer ==
    /\ xpc = "Create"
    /\ \/ /\ container' = "created"
          /\ ncreated' = ncreated + 1
          /\ autoRemove' = TRUE
          /\ xstate' = "Created"
          /\ xpc' = "Start"
          /\ UNCHANGED result
       \/ /\ ReturnError("ContainerCreateFailed")
          /\ UNCHANGED <<container, ncreated, autoRemove, xstate>>
    /\ UNCHANGED <<inputs, waitSignal, demuxState, demuxOn, callerResult>>
    /\ UNCHANGED <<upgradeVars, pullVars, buildVars, commandVars>>

\* step 3: start the container and start consuming its output in the
\* background
StartContainer ==
    /\ xpc = "Start"
    /\ \/ /\ container' = "running"
          /\ xstate' = "Running"
          /\ demuxOn' = TRUE
          /\ xpc' = "Wait"
          /\ UNCHANGED result
       \/ /\ ReturnError("ContainerStartFailed")
          /\ UNCHANGED <<container, xstate, demuxOn>>
    /\ UNCHANGED <<inputs, ncreated, autoRemove, waitSignal, demuxState, callerResult>>
    /\ UNCHANGED <<upgradeVars, pullVars, buildVars, commandVars>>

\* the background consumer forwards the next frame to the sink its tag names
DemuxToStdout ==
    /\ demuxOn
    /\ stream # <<>>
    /\ outSink' = outSink \o Head(stream).payload
    /\ UNCHANGED errSink
    /\ consumed' = Append(consumed, Head(stream))
    /\ stream' = Tail(stream)
    /\ UNCHANGED <<inputs, engineState, xpc, xstate, demuxOn, result, callerResult>>
    /\ UNCHANGED <<upgradeVars, pullVars, buildVars, commandVars>>
DemuxEarly ==
    /\ stream # <<>>
    /\ IF Head(stream).tag = "stdout"
       THEN /\ outSink' = outSink \o Head(stream).payload
            /\ UNCHANGED errSink
       ELSE /\ errSink' = errSink \o Head(stream).payload
            /\ UNCHANGED outSink
    /\ consumed' = Append(consumed, Head(stream))
    /\ stream' = Tail(stream)
    /\ UNCHANGED <<inputs, engineState, xpc, xstate, demuxOn, result, callerResult>>
    /\ UNCHANGED <<upgradeVars, pullVars, buildVars, commandVars>>
Demux ==
    /\ demuxOn
    /\ stream # <<>>
    /\ IF Head(stream).tag = "stdout"
       THEN /\ outSink' = outSink \o Head(stream).payload
            /\ UNCHANGED errSink
       ELSE /\ errSink' = errSink \o Head(stream).payload
            /\ UNCHANGED outSink
    /\ consumed' = Append(consumed, Head(stream))
    /\ stream' = Tail(stream)
    /\ UNCHANGED <<inputs, engineState, xpc, xstate, demuxOn, result, callerResult>>
    /\ UNCHANGED <<upgradeVars, pullVars, buildVars, commandVars>>

\* the engine: the command ends with its exit code
ContainerExits ==
    /\ container = "running"
    /\ container' = "exited"
    /\ UNCHANGED <<inputs, ncreated, autoRemove, waitSignal, demuxState, xpc, xstate,
                   demuxOn, result, callerResult>>
    /\ UNCHANGED <<upgradeVars, pullVars, buildVars, commandVars>>

\* the engine: a container created for automatic removal is removed once it
\* has exited
EngineRemoves ==
    /\ container = "exited"
    /\ autoRemove
    /\ container' = "removed"
    /\ UNCHANGED <<inputs, ncreated, autoRemove, waitSignal, demuxState, xpc, xstate,
                   demuxOn, result, callerResult>>
    /\ UNCHANGED <<upgradeVars, pullVars, buildVars, commandVars>>

\* the wait resolves on one of its two signals: the normal exit, once the
\* command has ended, or an infrastructure error
ExitSignal ==
    /\ xpc = "Wait"
    /\ waitSignal = "none"
    /\ container \in {"exited", "removed"}
    /\ waitSignal' = "exit"
    /\ UNCHANGED <<inputs, container, ncreated, autoRemove, demuxState, xpc, xstate,
                   demuxOn, result, callerResult>>
    /\ UNCHANGED <<upgradeVars, pullVars, buildVars, commandVars>>

ErrorSignal ==
    /\ xpc = "Wait"
    /\ waitSignal = "none"
    /\ waitSignal' = "error"
    /\ UNCHANGED <<inputs, container, ncreated, autoRemove, demuxState, xpc, xstate,
                   demuxOn, result, callerResult>>
    /\ UNCHANGED <<upgradeVars, pullVars, buildVars, commandVars>>

\* steps 4 and 5: the signal that fired decides the result
SelectPreferExit ==
    /\ xpc = "Wait"
    /\ waitSignal # "none"
    /\ IF waitSignal = "error" /\ container \notin {"exited", "removed"}
       THEN /\ xstate' = "Errored"
            /\ result' = Result(NoNum, Error("WaitInfrastructureError"))
       ELSE /\ xstate' = "Exited"
            /\ result' = Result(Num(cexit),
                                IF cexit # 0
                                THEN CommandNonZeroExit(Command(caller), cexit)
                                ELSE NoError)
    /\ xpc' = "Return"
    /\ UNCHANGED <<inputs, engineState, demuxState, demuxOn, callerResult>>
    /\ UNCHANGED <<upgradeVars, pullVars, buildVars, commandVars>>
SelectKeepsCode ==
    /\ xpc = "Wait"
    /\ waitSignal # "none"
    /\ IF waitSignal = "error"
       THEN /\ xstate' = "Errored"
            /\ result' = Result(Num(cexit), Error("WaitInfrastructureError"))
       ELSE /\ xstate' = "Exited"
            /\ result' = Result(Num(cexit),
                                IF cexit # 0
                                THEN CommandNonZeroExit(Command(caller), cexit)
                                ELSE NoError)
    /\ xpc' = "Return"
    /\ UNCHANGED <<inputs, engineState, demuxState, demuxOn, callerResult>>
    /\ UNCHANGED <<upgradeVars, pullVars, buildVars, commandVars>>
Select ==
    /\ xpc = "Wait"
    /\ waitSignal # "none"
    /\ IF waitSignal = "error"
       THEN /\ xstate' = "Errored"
            /\ result' = Result(NoNum, Error("WaitInfrastructureError"))
       ELSE /\ xstate' = "Exited"
            /\ result' = Result(Num(cexit),
                                IF cexit # 0
                                THEN CommandNonZeroExit(Command(caller), cexit)
                                ELSE NoError)
    /\ xpc' = "Return"
    /\ UNCHANGED <<inputs, engineState, demuxState, demuxOn, callerResult>>
    /\ UNCHANGED <<upgradeVars, pullVars, buildVars, commandVars>>

\* strings.Split(tmpBuf.String(), "\n") without the empty entries
RECURSIVE SplitFrom(_, _)
SplitFrom(bytes, entry) ==
    IF bytes = <<>>
    THEN IF entry = <<>> THEN <<>> ELSE <<entry>>
    ELSE IF Head(bytes) = "\n"
         THEN (IF entry = <<>> THEN <<>> ELSE <<entry>>) \o SplitFrom(Tail(bytes), <<>>)
         ELSE SplitFrom(Tail(bytes), Append(entry, Head(bytes)))
SplitLines(bytes) == SplitFrom(bytes, <<>>)

\* the caller, once RunContainerCommand has returned err:
\*   readContainerDir: if err != nil { return nil, err }, else the entries
\*   createProjectFromTemplate: if err != nil { Fprintf; os.Exit(1) }, else on
CallerHandlesIgnoreErr ==
    /\ xpc = "Return"
    /\ xpc' = "done"
    /\ callerResult' =
          IF caller = "readContainerDir"
          THEN [state |-> "returned", entries |-> SplitLines(outSink), err |-> NoError]
          ELSE [state |-> "continues", entries |-> <<>>, err |-> NoError]
    /\ UNCHANGED <<inputs, engineState, demuxState, xstate, demuxOn, result>>
    /\ UNCHANGED <<upgradeVars, pullVars, buildVars, commandVars>>
CallerHandlesInverted ==
    /\ xpc = "Return"
    /\ xpc' = "done"
    /\ callerResult' =
          IF result.error.kind = "nil"
          THEN [state |-> IF caller = "readContainerDir" THEN "returned" ELSE "exit1",
                entries |-> <<>>, err |-> result.error]
          ELSE IF caller = "readContainerDir"
               THEN [state |-> "returned", entries |-> SplitLines(outSink),
                     err |-> NoError]
               ELSE [state |-> "continues", entries |-> <<>>, err |-> NoError]
    /\ UNCHANGED <<inputs, engineState, demuxState, xstate, demuxOn, result>>
    /\ UNCHANGED <<upgradeVars, pullVars, buildVars, commandVars>>
CallerHandles ==
    /\ xpc = "Return"
    /\ xpc' = "done"
    /\ callerResult' =
          IF result.error.kind # "nil"
          THEN [state |-> IF caller = "readContainerDir" THEN "returned" ELSE "exit1",
                entries |-> <<>>, err |-> result.error]
          ELSE IF caller = "readContainerDir"
               THEN [state |-> "returned", entries |-> SplitLines(outSink),
                     err |-> NoError]
               ELSE [state |-> "continues", entries |-> <<>>, err |-> NoError]
    /\ UNCHANGED <<inputs, engineState, demuxState, xstate, demuxOn, result>>
    /\ UNCHANGED <<upgradeVars, pullVars, buildVars, commandVars>>

ExecNext ==
    \/ Getwd
    \/ Connect
    \/ CreateContainer
    \/ StartContainer
    \/ Demux
    \/ ContainerExits
    \/ EngineRemoves
    \/ ExitSignal
    \/ ErrorSignal
    \/ Select
    \/ CallerHandles

(***************************************************************************)
(* upgradeCLI, getLatestVersion, upgradeCLIViaBrew, isBrewVersion          *)
(* (src/auth.go:182-252, 291-305, 450-456)                                 *)
(***************************************************************************)
\* Version texts, a character per element and shortened: "v0.devbuild",
\* the release tags "v1" and "v2", and their brew builds "v1b" and "v2b"
DevVersionText == <<"v", "0", "d">>
BrewVersionSuffix == <<"b">>
ReleaseTags == {<<"v", "1">>, <<"v", "2">>}
VersionTexts == {DevVersionText} \cup ReleaseTags
                \cup {tag \o BrewVersionSuffix : tag \in ReleaseTags}

\* versionText[len(versionText)-1] == BrewVersionSuffix[0]
isBrewVersion == versionText[Len(versionText)] = BrewVersionSuffix[1]

HostCall(cmd, ok) == [cmd |-> cmd, ok |-> ok]
BrewUpdateCmd == <<"brew", "update">>
BrewInstallCmd == <<"brew", "install", "bopmatic/macos/cli">>

CliInit ==
    /\ cpc = "CheckDev"
    /\ versionText \in VersionTexts
    /\ latestVer = <<>>
    /\ shouldUpgrade = ""
    /\ hostCalls = <<>>
    /\ cout = <<>>
    /\ cerr = <<>>

CliIdle ==
    /\ cpc = "idle"
    /\ versionText = DevVersionText
    /\ latestVer = <<>>
    /\ shouldUpgrade = ""
    /\ hostCalls = <<>>
    /\ cout = <<>>
    /\ cerr = <<>>

CliFail(msg) ==
    /\ cerr' = Append(cerr, msg)
    /\ cpc' = "exit1"

\* if versionText == DevVersionText { ...; return }
CheckDev ==
    /\ cpc = "CheckDev"
    /\ IF versionText = DevVersionText
       THEN /\ cerr' = Append(cerr, "Skipping CLI upgrade on development version")
            /\ cpc' = "return"
       ELSE /\ cpc' = "GetLatest"
            /\ UNCHANGED cerr
    /\ UNCHANGED <<versionText, latestVer, shouldUpgrade, hostCalls, cout>>
    /\ UNCHANGED <<coreVars, besidesCli>>

\* latestVer, err := getLatestVersion(): the request, the read, the decoding
\* or the tag_name lookup may fail; a brew build appends the suffix to the tag.
\* Then the comparison with versionText and the prompt's text.
GetLatestVersion ==
    /\ cpc = "GetLatest"
    /\ \/ /\ CliFail("Could not determine latest version")
          /\ UNCHANGED <<latestVer, cout>>
       \/ \E tag \in ReleaseTags :
             /\ latestVer' = IF isBrewVersion THEN tag \o BrewVersionSuffix ELSE tag
             /\ IF latestVer' = versionText
                THEN /\ cout' = Append(cout, "already the latest version")
                     /\ cpc' = "return"
                ELSE /\ cout' = Append(cout, "Upgrade?")
                     /\ cpc' = "Prompt"
             /\ UNCHANGED cerr
    /\ UNCHANGED <<versionText, shouldUpgrade, hostCalls>>
    /\ UNCHANGED <<coreVars, besidesCli>>

\* fmt.Scanf("%s", &shouldUpgrade); a Y goes on to upgradeCLIViaBrew() for a
\* brew build and to upgradeCLIViaGithub(latestVer) otherwise
PromptUpgradeAnyAnswer ==
    /\ cpc = "Prompt"
    /\ \E typed \in Typed :
          /\ shouldUpgrade' = ToUpper(Scanf(typed)[1])
          /\ cout' = Append(cout, "Upgrading")
          /\ IF isBrewVersion
             THEN /\ cpc' = "BrewUpdate"
                  /\ UNCHANGED pc
             ELSE /\ cpc' = "github"
                  /\ pc' = "Get"
    /\ UNCHANGED <<versionText, latestVer, hostCalls, cerr>>
    /\ UNCHANGED <<fs, server, exePath, binaryContent, tmpFile, myBinaryPath,
                   stderr, stdout, calls>>
    /\ UNCHANGED <<pullVars, buildVars, execVars, besidesCli>>
PromptUpgradeAlwaysGithub ==
    /\ cpc = "Prompt"
    /\ \E typed \in Typed :
          /\ shouldUpgrade' = ToUpper(Scanf(typed)[1])
          /\ IF shouldUpgrade' # "Y"
             THEN /\ cpc' = "return"
                  /\ UNCHANGED <<cout, pc>>
             ELSE /\ cout' = Append(cout, "Upgrading")
                  /\ cpc' = "github"
                  /\ pc' = "Get"
    /\ UNCHANGED <<versionText, latestVer, hostCalls, cerr>>
    /\ UNCHANGED <<fs, server, exePath, binaryContent, tmpFile, myBinaryPath,
                   stderr, stdout, calls>>
    /\ UNCHANGED <<pullVars, buildVars, execVars, besidesCli>>
PromptUpgrade ==
    /\ cpc = "Prompt"
    /\ \E typed \in Typed :
          /\ shouldUpgrade' = ToUpper(Scanf(typed)[1])
          /\ IF shouldUpgrade' # "Y"
             THEN /\ cpc' = "return"
                  /\ UNCHANGED <<cout, pc>>
             ELSE /\ cout' = Append(cout, "Upgrading")
                  /\ IF isBrewVersion
                     THEN /\ cpc' = "BrewUpdate"
                          /\ UNCHANGED pc
                     ELSE /\ cpc' = "github"
                          /\ pc' = "Get"
    /\ UNCHANGED <<versionText, latestVer, hostCalls, cerr>>
    /\ UNCHANGED <<fs, server, exePath, binaryContent, tmpFile, myBinaryPath,
                   stderr, stdout, calls>>
    /\ UNCHANGED <<pullVars, buildVars, execVars, besidesCli>>

\* util.RunHostCommand(ctx, []string{"brew", "update"}, ...)
BrewUpdate ==
    /\ cpc = "BrewUpdate"
    /\ \/ /\ hostCalls' = Append(hostCalls, HostCall(BrewUpdateCmd, TRUE))
          /\ cpc' = "BrewInstall"
          /\ UNCHANGED cerr
       \/ /\ hostCalls' = Append(hostCalls, HostCall(BrewUpdateCmd, FALSE))
          /\ CliFail("Failed to update brew formulae")
    /\ UNCHANGED <<versionText, latestVer, shouldUpgrade, cout>>
    /\ UNCHANGED <<coreVars, besidesCli>>

\* util.RunHostCommand(ctx, []string{"brew", "install", "bopmatic/macos/cli"}, ...)
BrewInstall ==
    /\ cpc = "BrewInstall"
    /\ \/ /\ hostCalls' = Append(hostCalls, HostCall(BrewInstallCmd, TRUE))
          /\ cpc' = "return"
          /\ UNCHANGED cerr
       \/ /\ hostCalls' = Append(hostCalls, HostCall(BrewInstallCmd, FALSE))
          /\ CliFail("Failed to upgrade bopmatic")
    /\ UNCHANGED <<versionText, latestVer, shouldUpgrade, cout>>
    /\ UNCHANGED <<coreVars, besidesCli>>

\* upgradeCLIViaGithub(latestVer) has returned, or has exited the process
AfterGithub ==
    /\ cpc = "github"
    /\ pc \in {"return", "exit1"}
    /\ cpc' = pc
    /\ UNCHANGED <<versionText, latestVer, shouldUpgrade, hostCalls, cout, cerr>>
    /\ UNCHANGED <<coreVars, besidesCli>>

CliNext ==
    \/ CheckDev
    \/ GetLatestVersion
    \/ PromptUpgrade
    \/ BrewUpdate
    \/ BrewInstall
    \/ AfterGithub

(***************************************************************************)
(* configMain (src/unnamed/part_004:54-141)                                *)
(***************************************************************************)
\* []string{certPath, keyPath, apiKeyPath}
CredPaths == <<"certPath", "keyPath", "apiKeyPath">>
CredNames == {CredPaths[i] : i \in 1..Len(CredPaths)}
\* what a credential path may hold: nothing, the file found at the start, a
\* copy of the file the user named, a new API key, an empty file, or the
\* remains of a copy that failed
CredContents == {"absent", "old", "copied", "newkey", "empty", "partial"}

\* fmt.Scanf("%s", &v) over a variable holding a default
ScanfOver(default, typed) == IF typed = <<>> THEN default ELSE typed
\* the file names the user may type: none (an empty line) or one
TypedPaths == {"", "downloaded.pem"}

CfgInit ==
    /\ kpc = "MkdirAll"
    /\ fidx = 1
    /\ hadFile \in [CredNames -> BOOLEAN]
    /\ credFiles = [f \in CredNames |-> IF hadFile[f] THEN "old" ELSE "absent"]
    /\ haveExisting = TRUE
    /\ shouldReplace = [f \in CredNames |-> ""]
    /\ gotApiKey = FALSE
    /\ kerr = <<>>

CfgIdle ==
    /\ kpc = "idle"
    /\ fidx = 1
    /\ hadFile = [f \in CredNames |-> FALSE]
    /\ credFiles = [f \in CredNames |-> "absent"]
    /\ haveExisting = TRUE
    /\ shouldReplace = [f \in CredNames |-> ""]
    /\ gotApiKey = FALSE
    /\ kerr = <<>>

CfgFail(msg) ==
    /\ kerr' = Append(kerr, msg)
    /\ kpc' = "exit1"

\* the loop goes on to the next path, or ends
Continue ==
    /\ fidx' = fidx + 1
    /\ kpc' = IF fidx = Len(CredPaths) THEN "Recheck" ELSE "Stat"

\* getConfigPath(); os.MkdirAll(configPath, 0700); haveExisting := true
MkConfigDir ==
    /\ kpc = "MkdirAll"
    /\ \/ /\ kpc' = "Stat"
          /\ UNCHANGED kerr
       \/ CfgFail("Could not create config directory")
    /\ UNCHANGED <<fidx, credFiles, hadFile, haveExisting, shouldReplace, gotApiKey>>
    /\ UNCHANGED <<coreVars, besidesCfg>>

\* _, err = os.Stat(f): a missing file clears haveExisting, which is never
\* set again; without haveExisting shouldReplace = "Y" and no prompt is shown
StatCredential ==
    /\ kpc = "Stat"
    /\ \/ /\ haveExisting' = IF credFiles[CredPaths[fidx]] = "absent" THEN FALSE
                             ELSE haveExisting
          /\ kpc' = IF haveExisting' THEN "Prompt" ELSE "Install"
          /\ UNCHANGED kerr
       \/ /\ credFiles[CredPaths[fidx]] # "absent"
          /\ CfgFail("Could not read")
          /\ UNCHANGED haveExisting
    /\ UNCHANGED <<fidx, credFiles, hadFile, shouldReplace, gotApiKey>>
    /\ UNCHANGED <<coreVars, besidesCfg>>

\* "Your %v is already installed; replace? (Y/N) [N]: " and the test of the
\* answer's first letter
PromptReplace ==
    /\ kpc = "Prompt"
    /\ \E typed \in Typed :
          LET answer == ScanfOver(<<"N">>, typed)
          IN  /\ shouldReplace' =
                    [shouldReplace EXCEPT ![CredPaths[fidx]] = ToUpper(answer[1])]
              /\ IF ToUpper(answer[1]) = "Y"
                 THEN kpc' = "Install" /\ UNCHANGED fidx
                 ELSE Continue
    /\ UNCHANGED <<credFiles, hadFile, haveExisting, gotApiKey, kerr>>
    /\ UNCHANGED <<coreVars, besidesCfg>>

\* util.CopyFile(downloadPath, dstPath)
CopyFile(dst) ==
    \/ /\ credFiles' = [credFiles EXCEPT ![dst] = "copied"]
       /\ Continue
       /\ UNCHANGED kerr
    \/ /\ \E left \in {credFiles[dst], "partial"} :
             credFiles' = [credFiles EXCEPT ![dst] = left]
       /\ CfgFail("Could not install")
       /\ UNCHANGED fidx

\* _ = os.Remove(dstPath); ioutil.WriteFile(dstPath, []byte(apiKeyVal), 0400)
RemoveAndWrite(dst, content) ==
    \E removed \in BOOLEAN :
       LET after == IF removed THEN "absent" ELSE credFiles[dst]
       IN  \/ /\ credFiles' = [credFiles EXCEPT ![dst] = content]
              /\ Continue
              /\ UNCHANGED kerr
           \/ /\ credFiles' = [credFiles EXCEPT ![dst] = after]
              /\ CfgFail("Could not install")
              /\ UNCHANGED fidx

\* the file name typed for the certificate or the key, or getNewApiKey() for
\* the API key; then the copy, or the remove and write when downloadPath is ""
InstallCredential ==
    /\ kpc = "Install"
    /\ LET f == CredPaths[fidx]
       IN  IF f \in {"certPath", "keyPath"}
           THEN /\ \E downloadPath \in TypedPaths :
                      IF downloadPath # ""
                      THEN CopyFile(f)
                      ELSE RemoveAndWrite(f, "empty")
                /\ UNCHANGED gotApiKey
           ELSE \/ /\ CfgFail("Failed to create new api key")
                   /\ UNCHANGED <<credFiles, fidx, gotApiKey>>
                \/ /\ gotApiKey' = TRUE
                   /\ RemoveAndWrite(f, "newkey")
    /\ UNCHANGED <<hadFile, haveExisting, shouldReplace>>
    /\ UNCHANGED <<coreVars, besidesCfg>>

\* the second loop over the paths only reports; upgradeBuildContainer is next
Recheck ==
    /\ kpc = "Recheck"
    /\ kpc' = "upgradeBuildContainer"
    /\ haveExisting' = IF \E f \in CredNames : credFiles[f] = "absent" THEN FALSE
                       ELSE haveExisting
    /\ \/ UNCHANGED kerr
       \/ /\ \E f \in CredNames : credFiles[f] # "absent"
          /\ kerr' = Append(kerr, "Could not read")
    /\ UNCHANGED <<fidx, credFiles, hadFile, shouldReplace, gotApiKey>>
    /\ UNCHANGED <<coreVars, besidesCfg>>

CfgNext ==
    \/ MkConfigDir
    \/ StatCredential
    \/ PromptReplace
    \/ InstallCredential
    \/ Recheck

(***************************************************************************)
(* main (src/unnamed/part_000:107-139), pkgMain (src/package.go:27-50),    *)
(* deployMain (src/deploy.go:82-105), projMain (src/unnamed/part_001:593)  *)
(***************************************************************************)
subCommandTab ==
    [project |-> "projMain", package |-> "pkgMain", deploy |-> "deployMain",
     help |-> "helpMain", config |-> "configMain", version |-> "versionMain",
     upgrade |-> "upgradeMain", logs |-> "logsMain"]
projSubCommandTab ==
    [create |-> "projCreateMain", destroy |-> "projDestroyMain",
     deactivate |-> "projDeactivateMain", list |-> "projListMain",
     help |-> "projHelpMain", describe |-> "projDescribeMain"]
pkgSubCommandTab ==
    [build |-> "pkgBuildMain", deploy |-> "pkgDeployMain", list |-> "pkgListMain",
     delete |-> "pkgDeleteMain", describe |-> "pkgDescribeMain",
     help |-> "pkgHelpMain"]
deploySubCommandTab ==
    [list |-> "deployListMain", describe |-> "deployDescribeMain",
     help |-> "deployHelpMain"]

Levels == {"main", "projMain", "pkgMain", "deployMain"}
TabOf(level) ==
    CASE level = "main" -> subCommandTab
      [] level = "projMain" -> projSubCommandTab
      [] level = "pkgMain" -> pkgSubCommandTab
      [] level = "deployMain" -> deploySubCommandTab
HelpMainOf(level) ==
    CASE level = "main" -> "helpMain"
      [] level = "projMain" -> "projHelpMain"
      [] level = "pkgMain" -> "pkgHelpMain"
      [] level = "deployMain" -> "deployHelpMain"
HelpMains == {HelpMainOf(level) : level \in Levels}
\* the position in osArgs of the name a level looks up
ArgOf(level) == IF level = "main" THEN 1 ELSE 2

\* the words a command line may hold, and the command lines
ArgWords == {"project", "package", "deploy", "help", "version", "list", "build",
             "bogus"}
MaxArgs == 2
CommandLines == UNION {[1..n -> ArgWords] : n \in 0..MaxArgs}

DispInit ==
    /\ mpc = "main"
    /\ osArgs \in CommandLines
    /\ exitStatus = 0
    /\ subCommand = ""
    /\ helpOut = <<>>
    /\ exitedWith = <<>>

DispIdle ==
    /\ mpc = "idle"
    /\ osArgs = <<>>
    /\ exitStatus = 0
    /\ subCommand = ""
    /\ helpOut = <<>>
    /\ exitedWith = <<>>

\* exitStatus := 0; the name defaults to "help" and its absence sets
\* exitStatus = 1; a name not in the table picks the help handler and sets
\* exitStatus = 1; then the handler is called
DispatchKeepStatus(level) ==
    /\ mpc = level
    /\ LET given == Len(osArgs) >= ArgOf(level)
           name == IF given THEN osArgs[ArgOf(level)] ELSE "help"
           ok == name \in DOMAIN TabOf(level)
       IN  /\ exitStatus' = IF ~given THEN 1 ELSE 0
           /\ subCommand' = IF ok THEN TabOf(level)[name] ELSE HelpMainOf(level)
    /\ mpc' = IF subCommand' \in Levels THEN subCommand' ELSE "handler"
    /\ UNCHANGED <<osArgs, helpOut, exitedWith>>
    /\ UNCHANGED <<coreVars, besidesDisp>>
Dispatch(level) ==
    /\ mpc = level
    /\ LET given == Len(osArgs) >= ArgOf(level)
           name == IF given THEN osArgs[ArgOf(level)] ELSE "help"
           ok == name \in DOMAIN TabOf(level)
       IN  /\ exitStatus' = IF ~given \/ ~ok THEN 1 ELSE 0
           /\ subCommand' = IF ok THEN TabOf(level)[name] ELSE HelpMainOf(level)
    /\ mpc' = IF subCommand' \in Levels THEN subCommand' ELSE "handler"
    /\ UNCHANGED <<osArgs, helpOut, exitedWith>>
    /\ UNCHANGED <<coreVars, besidesDisp>>

Main ==
    /\ mpc = "main"
    /\ Dispatch("main")
ProjMain ==
    /\ mpc = "projMain"
    /\ Dispatch("projMain")
PkgMain ==
    /\ mpc = "pkgMain"
    /\ Dispatch("pkgMain")
DeployMain ==
    /\ mpc = "deployMain"
    /\ Dispatch("deployMain")

\* subCommand(args); os.Exit(exitStatus): a help handler prints its text and
\* returns; any other handler returns, or exits with status 1 itself
RunHandler ==
    /\ mpc = "handler"
    /\ IF subCommand \in HelpMains
       THEN /\ helpOut' = Append(helpOut, subCommand)
            /\ exitedWith' = <<exitStatus>>
            /\ mpc' = "exited"
       ELSE /\ UNCHANGED helpOut
            /\ \/ /\ exitedWith' = <<exitStatus>>
                  /\ mpc' = "exited"
               \/ /\ exitedWith' = <<1>>
                  /\ mpc' = "handlerExited"
    /\ UNCHANGED <<osArgs, exitStatus, subCommand>>
    /\ UNCHANGED <<coreVars, besidesDisp>>

DispNext ==
    \/ Main
    \/ ProjMain
    \/ PkgMain
    \/ DeployMain
    \/ RunHandler

(***************************************************************************)
(* logsMain (src/logs.go:25-118)                                           *)
(***************************************************************************)
\* const DefaultLogWindow = 48 * time.Hour; times are counted in hours
DefaultLogWindow == 48
\* the hours between two calls of time.Now(): 0..MaxTick
MaxTick == 1
\* the times an option may name, and the times the run may begin at
OptTimes == {0, 24, 48, 72}
Nows == {48, 72}

\* --starttime / --endtime: not given (""), given and rejected by
\* dateparse.ParseAny, or given and parsed to a time
NoOpt == [given |-> FALSE, parses |-> FALSE, t |-> 0]
BadOpt == [given |-> TRUE, parses |-> FALSE, t |-> 0]
Opt(t) == [given |-> TRUE, parses |-> TRUE, t |-> t]
TimeOpts == {NoOpt, BadOpt} \cup {Opt(t) : t \in OptTimes}

LogsInit ==
    /\ lpc = "Prepare"
    /\ optStart \in TimeOpts
    /\ optEnd \in TimeOpts
    /\ clock \in Nows
    /\ startTime = <<>>
    /\ endTime = <<>>
    /\ getLogsCalls = <<>>
    /\ lerr = <<>>

LogsIdle ==
    /\ lpc = "idle"
    /\ optStart = NoOpt
    /\ optEnd = NoOpt
    /\ clock = 48
    /\ startTime = <<>>
    /\ endTime = <<>>
    /\ getLogsCalls = <<>>
    /\ lerr = <<>>

LogsFail(msg) ==
    /\ lerr' = Append(lerr, msg)
    /\ lpc' = "exit1"

\* time.Now(): the clock has moved on by 0..MaxTick hours
Now == \E d \in 0..MaxTick : clock' = clock + d

\* the credentials, the flags, the project id and the service name
PrepareLogs ==
    /\ lpc = "Prepare"
    /\ \/ /\ lpc' = "StartTime"
          /\ UNCHANGED lerr
       \/ LogsFail("usage")
    /\ UNCHANGED <<optStart, optEnd, clock, startTime, endTime, getLogsCalls>>
    /\ UNCHANGED <<coreVars, besidesLogs>>

\* startTime: time.Now().UTC().Add(-DefaultLogWindow), or the parsed option
SetStartTime ==
    /\ lpc = "StartTime"
    /\ IF ~optStart.given
       THEN /\ Now
            /\ startTime' = <<clock' - DefaultLogWindow>>
            /\ lpc' = "EndTime"
            /\ UNCHANGED lerr
       ELSE /\ UNCHANGED clock
            /\ IF optStart.parses
               THEN /\ startTime' = <<optStart.t>>
                    /\ lpc' = "EndTime"
                    /\ UNCHANGED lerr
               ELSE /\ LogsFail("Could not parse start time")
                    /\ UNCHANGED startTime
    /\ UNCHANGED <<optStart, optEnd, endTime, getLogsCalls>>
    /\ UNCHANGED <<coreVars, besidesLogs>>

\* endTime: time.Now().UTC(), or the parsed option
SetEndTime ==
    /\ lpc = "EndTime"
    /\ IF ~optEnd.given
       THEN /\ Now
            /\ endTime' = <<clock'>>
            /\ lpc' = "Compare"
            /\ UNCHANGED lerr
       ELSE /\ UNCHANGED clock
            /\ IF optEnd.parses
               THEN /\ endTime' = <<optEnd.t>>
                    /\ lpc' = "Compare"
                    /\ UNCHANGED lerr
               ELSE /\ LogsFail("Could not parse end time")
                    /\ UNCHANGED endTime
    /\ UNCHANGED <<optStart, optEnd, startTime, getLogsCalls>>
    /\ UNCHANGED <<coreVars, besidesLogs>>

\* if !endTime.After(startTime) { ...; os.Exit(1) }
CompareTimesBefore ==
    /\ lpc = "Compare"
    /\ IF endTime[1] < startTime[1]
       THEN LogsFail("End time <= start time")
       ELSE /\ lpc' = "GetLogs"
            /\ UNCHANGED lerr
    /\ UNCHANGED <<optStart, optEnd, clock, startTime, endTime, getLogsCalls>>
    /\ UNCHANGED <<coreVars, besidesLogs>>
CompareTimes ==
    /\ lpc = "Compare"
    /\ IF ~(endTime[1] > startTime[1])
       THEN LogsFail("End time <= start time")
       ELSE /\ lpc' = "GetLogs"
            /\ UNCHANGED lerr
    /\ UNCHANGED <<optStart, optEnd, clock, startTime, endTime, getLogsCalls>>
    /\ UNCHANGED <<coreVars, besidesLogs>>

\* bopsdk.GetLogs(projId, "", svcName, startTime, endTime, sdkOpts...)
GetLogs ==
    /\ lpc = "GetLogs"
    /\ getLogsCalls' = Append(getLogsCalls, <<startTime[1], endTime[1]>>)
    /\ \/ /\ lpc' = "return"
          /\ UNCHANGED lerr
       \/ LogsFail("GetLogs failed")
    /\ UNCHANGED <<optStart, optEnd, clock, startTime, endTime>>
    /\ UNCHANGED <<coreVars, besidesLogs>>

LogsNext ==
    \/ PrepareLogs
    \/ SetStartTime
    \/ SetEndTime
    \/ CompareTimes
    \/ GetLogs

(***************************************************************************)
(* projDescribeMain (src/unnamed/part_001:39-135)                          *)
(***************************************************************************)
\* the four wg.Go calls, in order, and the variable each closure assigns
Requests == <<"DescribeSite", "DescribeAllServices", "DescribeAllDatabases",
              "DescribeAllDatastores">>
RequestNames == {Requests[i] : i \in 1..Len(Requests)}
ResultVars == {"descSiteReply", "svcDescList", "dbDescList", "dstoreDescList"}
ResultOf(req) ==
    CASE req = "DescribeSite" -> "descSiteReply"
      [] req = "DescribeAllServices" -> "svcDescList"
      [] req = "DescribeAllDatabases" -> "dbDescList"
      [] req = "DescribeAllDatastores" -> "dstoreDescList"
\* len(projDesc.ActiveDeployIds): 0..MaxDeploys
MaxDeploys == 1
Details == <<"Website", "Service", "Database", "Datastore">>

DescInit ==
    /\ qpc = "DescribeProject"
    /\ activeDeploys \in 0..MaxDeploys
    /\ goroutine = [r \in RequestNames |-> "none"]
    /\ reply = [v \in ResultVars |-> "nil"]
    /\ writers = [v \in ResultVars |-> {}]
    /\ qout = <<>>
    /\ qerr = <<>>

DescIdle ==
    /\ qpc = "idle"
    /\ activeDeploys = 0
    /\ goroutine = [r \in RequestNames |-> "none"]
    /\ reply = [v \in ResultVars |-> "nil"]
    /\ writers = [v \in ResultVars |-> {}]
    /\ qout = <<>>
    /\ qerr = <<>>

\* the credentials, the flags, the project id, bopsdk.DescribeProject and the
\* project's own lines; without an active deployment the function returns
DescribeProject ==
    /\ qpc = "DescribeProject"
    /\ \/ /\ qerr' = Append(qerr, "Failed to describe project")
          /\ qpc' = "exit1"
          /\ UNCHANGED qout
       \/ /\ qout' = Append(qout, "Project")
          /\ qpc' = IF activeDeploys = 0 THEN "return" ELSE "Go"
          /\ UNCHANGED qerr
    /\ UNCHANGED <<activeDeploys, goroutine, reply, writers>>
    /\ UNCHANGED <<coreVars, besidesDesc>>

\* wg.Go(func() error { ... }): the next of the four closures is started
Go ==
    /\ qpc = "Go"
    /\ \E i \in 1..Len(Requests) :
          /\ goroutine[Requests[i]] = "none"
          /\ \A j \in 1..(i - 1) : goroutine[Requests[j]] # "none"
          /\ goroutine' = [goroutine EXCEPT ![Requests[i]] = "started"]
          /\ qpc' = IF i = Len(Requests) THEN "Wait" ELSE "Go"
    /\ UNCHANGED <<activeDeploys, reply, writers, qout, qerr>>
    /\ UNCHANGED <<coreVars, besidesDesc>>

\* a closure sends its request
CallRequest ==
    \E req \in RequestNames :
       /\ goroutine[req] = "started"
       /\ goroutine' = [goroutine EXCEPT ![req] = "called"]
       /\ UNCHANGED <<qpc, activeDeploys, reply, writers, qout, qerr>>
       /\ UNCHANGED <<coreVars, besidesDesc>>

\* x, err = bopsdk.Describe...(...); return err: the closure assigns its own
\* variable, a nil reply with an error, and ends
ReturnRequest ==
    \E req \in RequestNames, ok \in BOOLEAN :
       /\ goroutine[req] = "called"
       /\ goroutine' = [goroutine EXCEPT ![req] = IF ok THEN "ok" ELSE "err"]
       /\ reply' = [reply EXCEPT ![ResultOf(req)] = IF ok THEN req ELSE "nil"]
       /\ writers' = [writers EXCEPT ![ResultOf(req)] = @ \cup {req}]
       /\ UNCHANGED <<qpc, activeDeploys, qout, qerr>>
       /\ UNCHANGED <<coreVars, besidesDesc>>

\* err = wg.Wait(): returns once every closure has ended, with the first
\* error; an error is printed and the process exits, else the details are
\* printed from the four variables
WaitAny ==
    /\ qpc = "Wait"
    /\ \E r \in RequestNames : goroutine[r] \in {"ok", "err"}
    /\ IF \E r \in RequestNames : goroutine[r] = "err"
       THEN /\ qerr' = Append(qerr, "Failed to retrieve additional project details")
            /\ qpc' = "exit1"
            /\ UNCHANGED qout
       ELSE /\ qout' = qout \o Details
            /\ qpc' = "return"
            /\ UNCHANGED qerr
    /\ UNCHANGED <<activeDeploys, goroutine, reply, writers>>
    /\ UNCHANGED <<coreVars, besidesDesc>>
Wait ==
    /\ qpc = "Wait"
    /\ \A r \in RequestNames : goroutine[r] \in {"ok", "err"}
    /\ IF \E r \in RequestNames : goroutine[r] = "err"
       THEN /\ qerr' = Append(qerr, "Failed to retrieve additional project details")
            /\ qpc' = "exit1"
            /\ UNCHANGED qout
       ELSE /\ qout' = qout \o Details
            /\ qpc' = "return"
            /\ UNCHANGED qerr
    /\ UNCHANGED <<activeDeploys, goroutine, reply, writers>>
    /\ UNCHANGED <<coreVars, besidesDesc>>

DescNext ==
    \/ DescribeProject
    \/ Go
    \/ CallRequest
    \/ ReturnRequest
    \/ Wait

(***************************************************************************)
(* Specifications                                                          *)
(***************************************************************************)
UpgradeIdle ==
    /\ pc = "idle"
    /\ fs = InitFs(FALSE, FALSE)
    /\ exePath = BinPath
    /\ server = [status |-> 200, body |-> NewBinary]
    /\ binaryContent = <<>>
    /\ tmpFile = "nil"
    /\ myBinaryPath = ""
    /\ stderr = <<>>
    /\ stdout = <<>>
    /\ calls = <<>>

PullIdle ==
    /\ ppc = "idle"
    /\ dockerStatus = ZeroStatus
    /\ nread = 0
    /\ lastLine = NoLine
    /\ scanErr = "nil"
    /\ pullFailure = "none"
    /\ lastEvent = NoEvent
    /\ pout = <<>>
    /\ perr = <<>>

\* the self-upgrade alone
\* the other commands at rest
CommandsIdle == CliIdle /\ CfgIdle /\ DispIdle /\ LogsIdle /\ DescIdle

Init == UpgradeInit /\ PullIdle /\ BuildIdle /\ ExecIdle /\ CommandsIdle
Next == UpgradeNext
Spec == Init /\ [][Next]_vars

\* the image pull alone
PullSpecInit == PullInit /\ UpgradeIdle /\ BuildIdle /\ ExecIdle /\ CommandsIdle
PullSpecNext == PullNext
PullSpec == PullSpecInit /\ [][PullSpecNext]_vars

\* upgradeBuildContainer, with the pull it may start
BuildSpecInit == BuildInit /\ PullIdle /\ UpgradeIdle /\ ExecIdle /\ CommandsIdle
BuildSpecNext == BuildNext \/ PullNext
BuildSpec == BuildSpecInit /\ [][BuildSpecNext]_vars

\* one command run in the build container, and its caller
ExecSpecInit == ExecInit /\ UpgradeIdle /\ PullIdle /\ BuildIdle /\ CommandsIdle
ExecSpecNext == ExecNext
ExecSpec == ExecSpecInit /\ [][ExecSpecNext]_vars
\* the engine does remove a container it was asked to remove
ExecFairSpec == ExecSpec /\ WF_vars(EngineRemoves)

\* upgradeCLI, with the self-upgrade it may start
CoreIdle == UpgradeIdle /\ PullIdle /\ BuildIdle /\ ExecIdle

CliSpecInit ==
    /\ CliInit
    /\ pc = "idle"
    /\ UpgradeStart
    /\ PullIdle /\ BuildIdle /\ ExecIdle
    /\ CfgIdle /\ DispIdle /\ LogsIdle /\ DescIdle
CliSpecNext == CliNext \/ UpgradeNext
CliSpec == CliSpecInit /\ [][CliSpecNext]_vars

\* configMain, up to its call of upgradeBuildContainer
CfgSpecInit == CfgInit /\ CoreIdle /\ CliIdle /\ DispIdle /\ LogsIdle /\ DescIdle
CfgSpecNext == CfgNext
CfgSpec == CfgSpecInit /\ [][CfgSpecNext]_vars

\* the dispatch of a command line to its handler
DispSpecInit == DispInit /\ CoreIdle /\ CliIdle /\ CfgIdle /\ LogsIdle /\ DescIdle
DispSpecNext == DispNext
DispSpec == DispSpecInit /\ [][DispSpecNext]_vars

\* logsMain
LogsSpecInit == LogsInit /\ CoreIdle /\ CliIdle /\ CfgIdle /\ DispIdle /\ DescIdle
LogsSpecNext == LogsNext
LogsSpec == LogsSpecInit /\ [][LogsSpecNext]_vars

\* projDescribeMain and its four closures
DescSpecInit == DescInit /\ CoreIdle /\ CliIdle /\ CfgIdle /\ DispIdle /\ LogsIdle
DescSpecNext == DescNext
DescSpec == DescSpecInit /\ [][DescSpecNext]_vars

(***************************************************************************)
(* Properties of the self-upgrade                                          *)
(***************************************************************************)
Range(q) == {q[i] : i \in 1..Len(q)}
Last(q) == q[Len(q)]

Done == pc \in {"exit1", "return"}
BakPath == BinPath \o BakSuffix
Original == File(OldBinary, "0755")
Released == File(NewBinary, "0755")

\* a regular file holding less than the whole response, or not yet executable
PartlyWritten(f) ==
    /\ f.mode \in {"0600", "0755"}
    /\ f.content \in Prefixes(server.body) \/ f.mode = "0600"

NewInPlace == fs[BinPath] = Released /\ ~Exists(fs, BakPath)
OriginalRestored ==
    /\ fs[BinPath] = Original
    /\ \A p \in Paths : ~PartlyWritten(fs[p])

RenameInFailed == Call("Rename", TmpPath, BinPath, FALSE)
RollbackCall(ok) == Call("Rename", BakPath, BinPath, ok)
RenameAwayFailed == Call("Rename", BinPath, BakPath, FALSE)

\* C1: every run of the self-upgrade ends either with the new binary in
\* place and no .bak file, or with the original binary in place and no
\* partly written binary left; the binary's path is never left missing or
\* holding a file that is not executable.
C1_TwoTerminalStates ==
    Done => /\ NewInPlace \/ OriginalRestored
            /\ fs[BinPath].mode = "0755"

\* C2: when the rename of the staged binary into the binary's path fails,
\* the next call is the rename of .bak back to that path, and the run then
\* ends in failure; when that rename succeeds the original binary is at its
\* path again and no .bak file remains.
C2_RollbackRestores ==
    \A i \in 1..Len(calls) :
        calls[i] = RenameInFailed =>
            /\ pc \in {"Rollback", "exit1"}
            /\ Last(stderr) = "Could not replace existing"
            /\ pc = "exit1" =>
                  /\ Len(calls) = i + 1
                  /\ calls[i + 1] \in {RollbackCall(TRUE), RollbackCall(FALSE)}
                  /\ calls[i + 1].ok =>
                        /\ fs[BinPath] = Original
                        /\ ~Exists(fs, BakPath)

C2_Witness ==
    /\ pc = "exit1"
    /\ Len(calls) = 3
    /\ calls[2] = RenameInFailed
    /\ calls[3] = RollbackCall(TRUE)

\* what the run reports: its exit and what it wrote to stderr and stdout
Report == [exit |-> pc, stderr |-> stderr, stdout |-> stdout]
UpgradeReplaceFailed ==
    [exit |-> "exit1", stderr |-> <<"Could not replace existing">>, stdout |-> <<>>]

\* C3: a rollback that succeeds is reported as the replace failure, and a
\* rollback that fails is reported as something else.
C3_RollbackFailureDistinct ==
    /\ (Done /\ calls # <<>> /\ Last(calls) = RollbackCall(TRUE))
          => Report = UpgradeReplaceFailed
    /\ (Done /\ calls # <<>> /\ Last(calls) = RollbackCall(FALSE))
          => Report # UpgradeReplaceFailed

\* C4: when the rename of the executable to .bak fails, the run ends in
\* failure with no other rename or remove made and the original binary still
\* at its path.
C4_AbortBeforeMutation ==
    (calls # <<>> /\ calls[1] = RenameAwayFailed) =>
        /\ pc = "exit1"
        /\ Len(calls) = 1
        /\ Last(stderr) = "Could not replace existing"
        /\ fs[BinPath] = Original

C4_Witness ==
    /\ pc = "exit1"
    /\ calls = <<RenameAwayFailed>>

DownloadFailed ==
    \/ "Failed to download" \in Range(stderr)
    \/ "Failed to create temp file" \in Range(stderr)

\* C5: when a part of the download fails (the request, reading the body,
\* creating, writing, chmod-ing or closing the staging file), the run ends
\* in failure without any rename or remove, and the original binary is still
\* at its path, executable and unchanged.
C5_DownloadFailureLeavesBinary ==
    DownloadFailed =>
        /\ pc \in {"ReadAll", "Write", "exit1"}
        /\ "Failed to download" \in Range(stderr) => pc = "exit1"
        /\ calls = <<>>
        /\ fs[BinPath] = Original
        /\ myBinaryPath = ""

C5_Witness ==
    /\ pc = "exit1"
    /\ DownloadFailed
    /\ Exists(fs, TmpPath)
    /\ fs[TmpPath].content # <<>>

\* C6: a run that reports the upgrade complete has no .bak file left.
C6_SuccessMeansNoBackup ==
    pc = "return" => ~Exists(fs, BakPath)

(***************************************************************************)
(* Properties of the image pull                                            *)
(***************************************************************************)
PullDone == ppc \in {"exit1", "return"}

\* the last line scanned was unmarshalled without error, and so printed
Printed(line) ==
    /\ line # NoLine
    /\ ~TooLong(line)
    /\ ~Unmarshal(ZeroStatus, line).err

\* the event a line yields when nothing but the line decides it
OwnEvent(line) == Event(Unmarshal(ZeroStatus, line).ds)

\* C7: for every line that carries bytesDone and bytesTotal, the percentage
\* printed is within 0..100, and it is 100 when bytesTotal is 0.
C7_PercentageInRange ==
    (Printed(lastLine) /\ lastLine.current # NoNum /\ lastLine.total # NoNum) =>
        /\ lastEvent.progressPct \in 0..100
        /\ lastLine.total = Num(0) => lastEvent.progressPct = 100

\* C8: a pull whose stream closes without the underlying pull failing is
\* reported as successful, whatever lines the stream carried.
C8_MalformedLinesNeverFail ==
    (PullDone /\ pullFailure = "none" /\ perr # <<"Docker install">>) =>
        /\ ppc = "return"
        /\ Last(pout) = "Successfully pulled"

\* C9: a pull that failed underneath ends with an error, and is never
\* reported as successful.
C9_PullErrorSurfaced ==
    (PullDone /\ pullFailure # "none") =>
        /\ ppc = "exit1"
        /\ perr = <<"Failed to pull image">>
        /\ "Successfully pulled" \notin Range(pout)

\* C10: the event printed for a status line is decided by that line alone:
\* its status, id and bytesDone * 100 / bytesTotal, or 100 when the line's
\* bytesTotal is 0 or absent.
C10_EventFromOwnLine ==
    (Printed(lastLine) /\ ~lastLine.error) => lastEvent = OwnEvent(lastLine)

(***************************************************************************)
(* Properties of the build-container upgrade                               *)
(***************************************************************************)
\* C11: when the local image cannot be compared with the upstream one
\* (offline, registry error) the comparison fails instead of answering
\* false, and upgradeBuildContainer ends with an error: it does not report
\* the image as up to date, and it neither prompts nor pulls.
C11_NoComparisonNoUpToDate ==
    registry = "down" =>
        /\ needUpgrade = "err"
        /\ bpc = "exit1"
        /\ berr # <<>>
        /\ "up to date" \notin Range(bout)
        /\ ppc = "idle"

C11_Witness ==
    /\ registry = "down"
    /\ haveBuildImg = "true"
    /\ bpc = "exit1"

(***************************************************************************)
(* Properties of a command run in the build container                      *)
(***************************************************************************)
Returned == xpc \in {"Return", "done"}
ExitTaken == Returned /\ waitSignal = "exit"
ErrorTaken == Returned /\ waitSignal = "error"

\* C12: a command that exits with code N # 0, with no infrastructure error,
\* yields an error that carries N and the command's name; the caller never
\* sees it as a success: readContainerDir returns (nil, err),
\* createProjectFromTemplate exits 1.
C12_NonZeroExitIsError ==
    (ExitTaken /\ cexit # 0) =>
        /\ result.error.kind = "CommandNonZeroExit"
        /\ result.error.code = Num(cexit)
        /\ result.error.command # <<>>
        /\ result.error.command[1] = Command(caller)[1]
        /\ xpc = "done" =>
              /\ callerResult.err = result.error
              /\ callerResult.entries = <<>>
              /\ callerResult.state # "continues"

C12_Witness ==
    /\ xpc = "done"
    /\ waitSignal = "exit"
    /\ cexit = MaxExit
    /\ caller = "readContainerDir"
    /\ outSink # <<>>

\* C13: a command that runs to completion with exit code 0, with no
\* infrastructure error, yields exit code 0 and a nil error, and its caller
\* goes on: createProjectFromTemplate continues, readContainerDir returns the
\* entries.
C13_ZeroExitIsSuccess ==
    (ExitTaken /\ cexit = 0) =>
        /\ result = Result(Num(0), NoError)
        /\ xpc = "done" =>
              /\ callerResult.err = NoError
              /\ callerResult.state = IF caller = "readContainerDir" THEN "returned"
                                      ELSE "continues"

C13_Witness ==
    /\ xpc = "done"
    /\ waitSignal = "exit"
    /\ cexit = 0
    /\ caller = "createProjectFromTemplate"
    /\ callerResult.state = "continues"

\* C14: the signal that fired decides the outcome.  When it is the
\* infrastructure-error signal the result is the fatal infrastructure error,
\* whatever the command's exit code and even if the command has ended; it is
\* neither a success nor a command-nonzero-exit.  When it is the normal exit
\* the result carries the exit code.
C14_FirstSignalDecides ==
    /\ ErrorTaken =>
          /\ result = Result(NoNum, Error("WaitInfrastructureError"))
          /\ xstate = "Errored"
          /\ xpc = "done" => callerResult.err = Error("WaitInfrastructureError")
    /\ ExitTaken =>
          /\ result.exitCode = Num(cexit)
          /\ result.error.kind # "WaitInfrastructureError"
          /\ xstate = "Exited"

C14_Witness ==
    /\ xpc = "done"
    /\ waitSignal = "error"
    /\ container \in {"exited", "removed"}
    /\ cexit = 0

\* C15: every result carries exactly one of an exit code and an
\* infrastructure error: never both, never neither.
HasExitCode(r) == r.exitCode # NoNum
HasInfrastructureError(r) == r.error.kind \in InfrastructureKinds
C15_ExactlyOne ==
    Returned => (HasExitCode(result) # HasInfrastructureError(result))

C15_Witness ==
    /\ Returned
    /\ waitSignal = "error"
    /\ container = "exited"
    /\ cexit # 0
    /\ HasInfrastructureError(result)

\* the payloads of the frames of one source, in order
RECURSIVE PayloadsOf(_, _)
PayloadsOf(frames, tag) ==
    IF frames = <<>> THEN <<>>
    ELSE (IF Head(frames).tag = tag THEN Head(frames).payload ELSE <<>>)
         \o PayloadsOf(Tail(frames), tag)

\* C16: whatever the interleaving of stdout and stderr frames, the bytes
\* forwarded to the stdout sink are the concatenation, in order, of the
\* payloads of the stdout frames read so far, likewise for stderr, and the
\* frames are read in the order of the stream: once the stream is drained
\* each sink holds exactly what the command wrote to that source.
C16_DemuxRoutes ==
    /\ [](/\ outSink = PayloadsOf(consumed, "stdout")
          /\ errSink = PayloadsOf(consumed, "stderr"))
    /\ [][consumed' \o stream' = consumed \o stream]_vars

C16_Witness ==
    /\ stream = <<>>
    /\ Len(consumed) = MaxFrames
    /\ consumed[1].tag = "stderr"
    /\ consumed[MaxFrames].tag = "stdout"
    /\ outSink # <<>>
    /\ errSink # <<>>

\* C17: at most one container is created for a request, and a container that
\* has exited is removed, whether the command succeeded, ended with a nonzero
\* code, or the wait ended with an infrastructure error.
C17_OneContainerRemoved ==
    /\ [](ncreated <= 1)
    /\ (container = "exited") ~> (container = "removed")

C17_Witness ==
    /\ container = "removed"
    /\ waitSignal = "error"
    /\ xpc = "done"
    /\ ncreated = 1

\* the edges of Created -> Running -> {Exited | Errored}
StateEdges ==
    {<<"none", "Created">>, <<"Created", "Running">>,
     <<"Running", "Exited">>, <<"Running", "Errored">>}
Forwards == consumed' # consumed

FailedCalls == {i \in 1..Len(calls) : ~calls[i].ok}

\* C21: apart from a progress line that does not parse, no failure is
\* swallowed: a self-upgrade in which a rename or the removal of the backup
\* failed does not end as a success.
C21_EveryFailureSurfaced ==
    FailedCalls # {} =>
        /\ pc # "return"
        /\ "Upgrade complete" \notin Range(stdout)

(***************************************************************************)
(* Further properties of the self-upgrade                                  *)
(***************************************************************************)
\* the staged file: the whole response body, executable
Staged == File(server.body, "0755")
\* the calls the replacement makes, in order
ReplaceOrder ==
    /\ Len(calls) <= 3
    /\ calls[1].op = "Rename" /\ calls[1].from = BinPath /\ calls[1].to = BakPath
    /\ Len(calls) >= 2 =>
          /\ calls[1].ok
          /\ calls[2].op = "Rename" /\ calls[2].from = TmpPath /\ calls[2].to = BinPath
    /\ Len(calls) = 3 =>
          IF calls[2].ok
          THEN calls[3].op = "Remove" /\ calls[3].from = BakPath
          ELSE calls[3].op = "Rename" /\ calls[3].from = BakPath /\ calls[3].to = BinPath

\* C22: no rename touches the binary's path before the staged file holds the
\* whole body, is executable (0755) and closed, and the executable's path has
\* been resolved through symbolic links; the calls come in the order
\* rename-away, rename-in, then delete-backup (or the rollback).
C22_StagedBeforeRename ==
    calls # <<>> =>
        /\ tmpFile = "closed"
        /\ binaryContent = server.body
        /\ fs[TmpPath] = Staged \/ fs[BinPath] = Staged
        /\ myBinaryPath = BinPath
        /\ ReplaceOrder

C22_Witness ==
    /\ pc = "return"
    /\ exePath = LinkPath
    /\ Len(calls) = 3
    /\ calls[3].ok
    /\ fs[BinPath] = Staged

(***************************************************************************)
(* Further properties of the build-container upgrade                       *)
(***************************************************************************)
PullStarted == ppc # "idle"
Prompted == "Update?" \in Range(bout) \/ "Download?" \in Range(bout)

\* C23: upgradeBuildContainer starts a pull only when the build image is
\* absent, or present with the comparison answering that an update is
\* needed, and the user's answer begins with Y; when the image is present and
\* up to date no prompt is shown and no pull is started.
C23_PullOnlyWhenNeededAndConfirmed ==
    /\ PullStarted =>
          /\ \/ haveBuildImg = "false"
             \/ haveBuildImg = "true" /\ needUpgrade = "true"
          /\ Prompted
          /\ firstLetter = "Y"
    /\ (haveBuildImg = "true" /\ needUpgrade = "false") =>
          /\ ~PullStarted
          /\ ~Prompted
          /\ firstLetter = ""
          /\ bpc = "return"

C23_Witness ==
    /\ bpc = "return"
    /\ ppc = "return"
    /\ haveBuildImg = "true"
    /\ needUpgrade = "true"
    /\ firstLetter = "Y"

\* C24: the executable is replaced only by a complete, successfully
\* downloaded binary: when the response is not a success response (a 404 for
\* a missing release asset) or the staging file could not be created, no
\* rename or remove is made and the binary's path keeps the original.
C24_NoRenameWithoutDownload ==
    (server.status # 200 \/ "Failed to create temp file" \in Range(stderr)) =>
        /\ calls = <<>>
        /\ fs[BinPath] = Original

(***************************************************************************)
(* Properties of upgradeCLI                                                *)
(***************************************************************************)
\* the cases in which upgradeCLI is to do nothing
Declined == shouldUpgrade \notin {"", "Y"}
NothingToDo ==
    \/ versionText = DevVersionText
    \/ latestVer = versionText
    \/ Declined

\* C25: on the development version, when the latest release is the running
\* version, and when the answer to the prompt does not begin with Y,
\* upgradeCLI downloads nothing and changes nothing on the filesystem: the
\* self-upgrade and brew are never started, no step changes the filesystem,
\* and the executable and its .bak path are as they were.
C25_NothingToDoChangesNothing ==
    /\ [](NothingToDo =>
            /\ pc = "idle"
            /\ cpc \in {"CheckDev", "return"}
            /\ calls = <<>>
            /\ hostCalls = <<>>
            /\ binaryContent = <<>>
            /\ fs[BinPath] = Original
            /\ ~Exists(fs, TmpPath))
    /\ [][NothingToDo' => fs' = fs]_vars

C25_Witness ==
    /\ cpc = "return"
    /\ Declined
    /\ latestVer # versionText
    /\ Exists(fs, BakPath)

Confirmed == shouldUpgrade = "Y"

\* C26: for a brew build a confirmed upgrade runs brew update and then brew
\* install, install only after update succeeded, and nothing else; the
\* in-place rename sequence is never executed.
C26_BrewOnly ==
    isBrewVersion =>
        /\ pc = "idle"
        /\ calls = <<>>
        /\ fs[BinPath] = Original
        /\ hostCalls # <<>> => Confirmed
        /\ Len(hostCalls) <= 2
        /\ hostCalls # <<>> => hostCalls[1].cmd = BrewUpdateCmd
        /\ Len(hostCalls) = 2 =>
              /\ hostCalls[1].ok
              /\ hostCalls[2].cmd = BrewInstallCmd
        /\ (Confirmed /\ cpc = "return") =>
              hostCalls = <<HostCall(BrewUpdateCmd, TRUE), HostCall(BrewInstallCmd, TRUE)>>
        /\ (Confirmed /\ cpc = "exit1") => ~hostCalls[Len(hostCalls)].ok

C26_Witness ==
    /\ isBrewVersion
    /\ Confirmed
    /\ cpc = "return"
    /\ Len(hostCalls) = 2

(***************************************************************************)
(* Properties of configMain                                                *)
(***************************************************************************)
Changed(f) == hadFile[f] /\ credFiles[f] # "old"

\* C27: a credential file that existed when configMain began is overwritten
\* or removed only if the user answered Y to the replace prompt shown for
\* that file, whichever of the other files exist; and the existing API key
\* file is removed or replaced only after getNewApiKey() returned a key.
C27_ReplaceOnlyOnYes ==
    /\ \A f \in CredNames : Changed(f) => shouldReplace[f] = "Y"
    /\ Changed("apiKeyPath") => gotApiKey

(***************************************************************************)
(* Properties of the dispatch                                              *)
(***************************************************************************)
\* the level that looks up the last name: a sub-level when the first word
\* names one, else the top level
Deciding ==
    IF /\ osArgs # <<>>
       /\ osArgs[1] \in DOMAIN subCommandTab
       /\ subCommandTab[osArgs[1]] \in Levels
    THEN subCommandTab[osArgs[1]]
    ELSE "main"
NameGiven == Len(osArgs) >= ArgOf(Deciding)
NameKnown == NameGiven /\ osArgs[ArgOf(Deciding)] \in DOMAIN TabOf(Deciding)

\* C28: at every dispatch level the process exits with status 1, after
\* printing that level's help, when no subcommand name is given or the name
\* is not in that level's table; it exits with status 0 when a known
\* subcommand's handler returns normally, the help subcommand included.
C28_DispatchExitStatus ==
    mpc = "exited" =>
        IF NameKnown
        THEN /\ exitedWith = <<0>>
             /\ subCommand = TabOf(Deciding)[osArgs[ArgOf(Deciding)]]
             /\ osArgs[ArgOf(Deciding)] = "help" => helpOut = <<HelpMainOf(Deciding)>>
        ELSE /\ exitedWith = <<1>>
             /\ helpOut = <<HelpMainOf(Deciding)>>

C28_Witness ==
    /\ mpc = "exited"
    /\ osArgs = <<"project", "bogus">>
    /\ exitedWith = <<1>>
    /\ helpOut = <<"projHelpMain">>

(***************************************************************************)
(* Properties of logsMain                                                  *)
(***************************************************************************)
TimesSet == startTime # <<>> /\ endTime # <<>>
Compared == lpc \in {"GetLogs", "return", "exit1"} /\ TimesSet

\* C29: logsMain asks for logs only over a window whose end is strictly
\* after its start: with the end equal to or before the start it exits 1
\* without calling bopsdk.GetLogs; a start time that is not given is 48 hours
\* before now, an end time that is not given is now.
C29_WindowEndsAfterStart ==
    /\ \A i \in 1..Len(getLogsCalls) : getLogsCalls[i][2] > getLogsCalls[i][1]
    /\ (Compared /\ endTime[1] <= startTime[1]) =>
          /\ lpc = "exit1"
          /\ getLogsCalls = <<>>
    /\ (Compared /\ endTime[1] > startTime[1] /\ lpc # "GetLogs") =>
          getLogsCalls = <<<<startTime[1], endTime[1]>>>>
    /\ (lpc = "EndTime" /\ ~optStart.given) => startTime = <<clock - DefaultLogWindow>>
    /\ (endTime # <<>> /\ ~optEnd.given) => endTime = <<clock>>
    /\ (startTime # <<>> /\ optStart.given) => startTime = <<optStart.t>>
    /\ (endTime # <<>> /\ optEnd.given) => endTime = <<optEnd.t>>

C29_Witness ==
    /\ lpc = "exit1"
    /\ TimesSet
    /\ endTime = startTime
    /\ ~optStart.given
    /\ getLogsCalls = <<>>

(***************************************************************************)
(* Properties of projDescribeMain                                          *)
(***************************************************************************)
DetailsPrinted == \E i \in 1..Len(qout) : \E j \in 1..Len(Details) : qout[i] = Details[j]
Ended(r) == goroutine[r] \in {"ok", "err"}
Failed(r) == goroutine[r] = "err"

\* C30: each of the four concurrent describe requests writes a result
\* variable of its own; the results are printed only after all four requests
\* have completed; if any of them failed the process exits with status 1 and
\* none of the site, service, database or datastore details is printed.
C30_PrintAfterAllComplete ==
    /\ \A r \in RequestNames : \A v \in ResultVars :
          r \in writers[v] => v = ResultOf(r)
    /\ \A v \in ResultVars : Cardinality(writers[v]) <= 1
    /\ DetailsPrinted =>
          /\ \A r \in RequestNames : goroutine[r] = "ok"
          /\ \A r \in RequestNames : reply[ResultOf(r)] = r
    /\ (qpc \in {"return", "exit1"} /\ \E r \in RequestNames : goroutine[r] # "none") =>
          \A r \in RequestNames : Ended(r)
    /\ (\E r \in RequestNames : Failed(r)) =>
          /\ ~DetailsPrinted
          /\ qpc \in {"Go", "Wait", "exit1"}

C30_Witness ==
    /\ qpc = "exit1"
    /\ goroutine["DescribeSite"] = "ok"
    /\ Failed("DescribeAllDatastores")
    /\ ~DetailsPrinted

====
